---- MODULE Spec2Model ----
(***************************************************************************)
(* The WAL block codec of vigil-core (databases/fs/blocks.rs, wal.rs):     *)
(* the BlocksMut writer with its OpenedBlock, the Blocks reader, the       *)
(* record codec with its CRC-32, the segment footer codec, the midpoints   *)
(* and the segment's record writer; the scalar query iterator              *)
(* (queries/events.rs, queries/orderer.rs), Sources::fill                  *)
(* (queries/mod.rs), the aggregate query iterator (queries/aggregates)     *)
(* and the in-memory database (databases/in_mem).                          *)
(*                                                                         *)
(* Bytes are naturals 0..255 and a buffer is a sequence of bytes.  An      *)
(* Option<T> is a sequence of length 0 (None) or 1 (Some).  usize, u8 and  *)
(* u16 values are naturals.  A u32 or u64 value that the caller chooses    *)
(* (an lsn, a checksum) uses all its bits: it is the sequence of its       *)
(* 16-bit limbs, least significant first (2 limbs for u32, 4 for u64).     *)
(***************************************************************************)
EXTENDS Integers, Sequences, FiniteSets, TLC

VARIABLES
    blocks,   \* the BlocksMut: limit, offset, buf, mid_freq, last_mid_offset, midpoints
    opened,   \* Option<OpenedBlock>: the block borrowed from `blocks`
    last,     \* the last call: its name, argument, result and the state it started from
    track,    \* history of the block being written (space before open, bytes handed over)
    closed,   \* history: one entry per block whose finalize returned Ok
    clean,    \* history: no put or finalize has failed and no opened block was dropped
    reader,   \* Option<Blocks>: the read cursor
    image,    \* the bytes the reader was created over
    damage,   \* Option: the change made to the bytes between writing and reading
    reads,    \* the results of the next_block / next_record calls, in order
    subject,  \* Option: the LogRecord, LogSegFooter or Midpoints under test
    wire,     \* the bytes produced by LogSegFooter::serialize_into
    segment,  \* Option<LogSegment>
    writer,   \* Option<LogSegmentRecordWriter>: its cached_last_lsn (its BlocksMut is `blocks`)
    query,    \* Option<EventQuery> or Option<AggQuery>; the InMemDb; two queries for two runs
    results   \* what the next / append calls returned, in order

vars == <<blocks, opened, last, track, closed, clean, reader, image, damage, reads,
          subject, wire, segment, writer, query, results>>

\* the variables of the block, record and footer codecs
codec == <<blocks, opened, last, track, closed, clean, reader, image, damage, reads,
           subject, wire>>

(***************************************************************************)
(* Bounds of the model.                                                    *)
(***************************************************************************)
\* the largest `need` passed to open
MaxNeed == 4
\* the limit of the BlocksMut in the writer specification: room for two small blocks
Limit == 20

\* the offsets a BlocksMut is created at
Offsets == {0, 3}
\* an offset past the limit: nothing fits
PastLimit == 2

(***************************************************************************)
(* Little-endian integers (bytes::BufMut::put_*_le, bytes::Buf::get_*_le). *)
(***************************************************************************)
RECURSIVE LE(_, _)
LE(value, n) == IF n = 0 THEN <<>> ELSE <<value % 256>> \o LE(value \div 256, n - 1)

RECURSIVE FromLE(_)
FromLE(bytes) == IF bytes = <<>> THEN 0 ELSE bytes[1] + 256 * FromLE(Tail(bytes))

Zeroes(cnt) == [i \in 1..cnt |-> 0]

\* a u32 / u64 given by its value, for values below 2^31
U32(n) == <<n % 65536, n \div 65536>>

U64(n) == <<n % 65536, n \div 65536, 0, 0>>

RECURSIVE LimbsLE(_)
LimbsLE(limbs) == IF limbs = <<>> THEN <<>> ELSE LE(Head(limbs), 2) \o LimbsLE(Tail(limbs))

RECURSIVE LimbsFromLE(_)
LimbsFromLE(bytes) ==
    IF bytes = <<>> THEN <<>>
    ELSE <<FromLE(SubSeq(bytes, 1, 2))>> \o LimbsFromLE(SubSeq(bytes, 3, Len(bytes)))

Take(bytes, n) == SubSeq(bytes, 1, n)

Drop(bytes, n) == SubSeq(bytes, n + 1, Len(bytes))

(***************************************************************************)
(* BlocksMut                                                               *)
(***************************************************************************)
BlocksMut_new(limit, offset, last_mid_offset, buf) ==
    [limit |-> limit, offset |-> offset, buf |-> buf,
     last_mid_offset |-> last_mid_offset,
     mid_freq |-> limit \div 10,
     midpoints |-> <<>>]

available_space(b) ==
    IF b.limit >= b.offset + Len(b.buf) THEN b.limit - (b.offset + Len(b.buf)) ELSE 0

projected_offset(b) == b.offset + Len(b.buf)

\* A call on the writer returns its result with the writer and the opened block as
\* the call leaves them.
Ret(res, b, o) == [res |-> res, blocks |-> b, opened |-> o]

\* A bug open could have: a block that fills the space exactly is refused.
open_mutant(b, need) ==
    LET actual_need == 4 + need + 4 IN
    IF available_space(b) <= actual_need
    THEN Ret("OutOfSpace", b, <<>>)
    ELSE LET buf == b.buf \o LE(need, 4)
         IN  Ret("Ok", [b EXCEPT !.buf = buf],
                 <<[need |-> need,
                    block_start_offset |-> b.offset + Len(b.buf),
                    buf_start_offset |-> Len(buf),
                    written |-> 0]>>)

open(b, need) ==
    LET actual_need == 4 + need + 4 IN
    IF available_space(b) < actual_need
    THEN Ret("OutOfSpace", b, <<>>)
    ELSE LET block_start_offset == b.offset + Len(b.buf)
             buf == b.buf \o LE(need, 4)
         IN  Ret("Ok", [b EXCEPT !.buf = buf],
                 <<[need |-> need,
                    block_start_offset |-> block_start_offset,
                    buf_start_offset |-> Len(buf),
                    written |-> 0]>>)

(***************************************************************************)
(* OpenedBlock: each put adds to `written` first and checks it after.      *)
(***************************************************************************)
put_u32_le(b, o, value) ==
    LET w == [o EXCEPT !.written = @ + 4] IN
    IF w.written > w.need
    THEN Ret("WroteTooMuch", b, <<w>>)
    ELSE Ret("Ok", [b EXCEPT !.buf = @ \o LimbsLE(value)], <<w>>)

put_u64_le(b, o, value) ==
    LET w == [o EXCEPT !.written = @ + 8] IN
    IF w.written > w.need
    THEN Ret("WroteTooMuch", b, <<w>>)
    ELSE Ret("Ok", [b EXCEPT !.buf = @ \o LimbsLE(value)], <<w>>)

put_u16_le(b, o, value) ==
    LET w == [o EXCEPT !.written = @ + 2] IN
    IF w.written > w.need
    THEN Ret("WroteTooMuch", b, <<w>>)
    ELSE Ret("Ok", [b EXCEPT !.buf = @ \o LE(value, 2)], <<w>>)

\* A bug put_u8 could have: the byte is appended before the check.
put_u8_mutant(b, o, value) ==
    LET w == [o EXCEPT !.written = @ + 1]
        b1 == [b EXCEPT !.buf = @ \o LE(value, 1)]
    IN  IF w.written > w.need THEN Ret("WroteTooMuch", b1, <<w>>) ELSE Ret("Ok", b1, <<w>>)

put_u8(b, o, value) ==
    LET w == [o EXCEPT !.written = @ + 1] IN
    IF w.written > w.need
    THEN Ret("WroteTooMuch", b, <<w>>)
    ELSE Ret("Ok", [b EXCEPT !.buf = @ \o LE(value, 1)], <<w>>)

put_bytes(b, o, value) ==
    LET w == [o EXCEPT !.written = @ + Len(value)] IN
    IF w.written > w.need
    THEN Ret("WroteTooMuch", b, <<w>>)
    ELSE Ret("Ok", [b EXCEPT !.buf = @ \o value], <<w>>)

zeroes(b, o, cnt) ==
    LET w == [o EXCEPT !.written = @ + cnt] IN
    IF w.written > w.need
    THEN Ret("WroteTooMuch", b, <<w>>)
    ELSE Ret("Ok", [b EXCEPT !.buf = @ \o Zeroes(cnt)], <<w>>)

written_bytes(b, o) == SubSeq(b.buf, o.buf_start_offset + 1, o.buf_start_offset + o.written)

\* A bug finalize could have: a midpoint as soon as the distance reaches mid_freq.
finalize_mutant(b, o) ==
    IF o.written < o.need
    THEN Ret("WroteTooLittle", b, <<>>)
    ELSE LET b1 == [b EXCEPT !.buf = @ \o LE(o.need, 4)] IN
         IF projected_offset(b1) - b1.last_mid_offset >= b1.mid_freq
         THEN Ret("Ok", [b1 EXCEPT !.midpoints = Append(@, o.block_start_offset),
                                   !.last_mid_offset = o.block_start_offset], <<>>)
         ELSE Ret("Ok", b1, <<>>)

\* finalize consumes the OpenedBlock whatever it returns.
finalize(b, o) ==
    IF o.written < o.need
    THEN Ret("WroteTooLittle", b, <<>>)
    ELSE LET b1 == [b EXCEPT !.buf = @ \o LE(o.need, 4)] IN
         IF projected_offset(b1) - b1.last_mid_offset > b1.mid_freq
         THEN Ret("Ok", [b1 EXCEPT !.midpoints = Append(@, o.block_start_offset),
                                   !.last_mid_offset = o.block_start_offset], <<>>)
         ELSE Ret("Ok", b1, <<>>)

(***************************************************************************)
(* The writer as a state machine: the calls a caller can make on a         *)
(* BlocksMut and on the OpenedBlock it hands out.                          *)
(***************************************************************************)
\* argument values of the put calls
U8Vals == {7}
U16Vals == {258}
U32Vals == {U32(1)}
U64Vals == {U64(9)}
ByteStrings == {<<5, 6, 7>>}
ZeroCounts == {2}

Call(op, arg, res) == [op |-> op, arg |-> arg, res |-> res, pre |-> blocks, ob |-> opened]

NoTrack == [start |-> 0, space |-> 0, payload |-> <<>>]

Quiet == /\ reader = <<>> /\ image = <<>> /\ damage = <<>> /\ reads = <<>>
         /\ subject = <<>> /\ wire = <<>>

\* no segment, no record writer and no query
Idle == segment = <<>> /\ writer = <<>> /\ query = <<>> /\ results = <<>>

Init ==
    /\ \E offset \in Offsets \cup {Limit + PastLimit} : \E last_mid_offset \in {0, offset} :
           blocks = BlocksMut_new(Limit, offset, last_mid_offset, <<>>)
    /\ opened = <<>>
    /\ last = [op |-> "new", arg |-> 0, res |-> "Ok", pre |-> blocks, ob |-> <<>>]
    /\ track = NoTrack
    /\ closed = <<>>
    /\ clean = TRUE
    /\ Quiet
    /\ Idle

Open(need) ==
    /\ opened = <<>>
    /\ reader = <<>>
    /\ LET r == open(blocks, need) IN
       /\ blocks' = r.blocks
       /\ opened' = r.opened
       /\ last' = Call("open", need, r.res)
       /\ track' = IF r.res = "Ok"
                   THEN [start |-> Len(blocks.buf), space |-> available_space(blocks),
                         payload |-> <<>>]
                   ELSE track
    /\ UNCHANGED <<segment, writer, query, results, closed, clean, reader, image, damage, reads, subject, wire>>

\* The part every put call shares: `r` is what the call returned, `bytes` what it
\* was asked to write.
Put(op, arg, bytes, r) ==
    /\ blocks' = r.blocks
    /\ opened' = r.opened
    /\ last' = Call(op, arg, r.res)
    /\ track' = IF r.res = "Ok" THEN [track EXCEPT !.payload = @ \o bytes] ELSE track
    /\ clean' = (clean /\ r.res = "Ok")
    /\ UNCHANGED <<segment, writer, query, results, closed, reader, image, damage, reads, subject, wire>>

\* `written` grows with every call, also a failed one: calls are made while it is
\* within MaxNeed.
CanPut == opened # <<>> /\ opened[1].written <= MaxNeed

PutU8(value) ==
    CanPut /\ Put("put_u8", value, LE(value, 1), put_u8(blocks, opened[1], value))

PutU16(value) ==
    CanPut /\ Put("put_u16_le", value, LE(value, 2), put_u16_le(blocks, opened[1], value))

PutU32(value) ==
    CanPut /\ Put("put_u32_le", value, LimbsLE(value), put_u32_le(blocks, opened[1], value))

PutU64(value) ==
    CanPut /\ Put("put_u64_le", value, LimbsLE(value), put_u64_le(blocks, opened[1], value))

PutBytes(value) ==
    CanPut /\ Put("put_bytes", value, value, put_bytes(blocks, opened[1], value))

PutZeroes(cnt) ==
    CanPut /\ Put("zeroes", cnt, Zeroes(cnt), zeroes(blocks, opened[1], cnt))

Finalize ==
    /\ opened # <<>>
    /\ LET r == finalize(blocks, opened[1]) IN
       /\ blocks' = r.blocks
       /\ opened' = r.opened
       /\ last' = Call("finalize", 0, r.res)
       /\ closed' = IF r.res = "Ok"
                    THEN Append(closed, [need |-> opened[1].need,
                                         start |-> track.start,
                                         end |-> Len(r.blocks.buf),
                                         space_before |-> track.space,
                                         space_after |-> available_space(r.blocks),
                                         payload |-> track.payload])
                    ELSE closed
       /\ clean' = (clean /\ r.res = "Ok")
    /\ UNCHANGED <<segment, writer, query, results, track, reader, image, damage, reads, subject, wire>>

\* An OpenedBlock that goes out of scope without finalize: what it wrote stays.
DropOpened ==
    /\ opened # <<>>
    /\ opened' = <<>>
    /\ last' = Call("drop", 0, "Ok")
    /\ clean' = FALSE
    /\ UNCHANGED <<segment, writer, query, results, blocks, track, closed, reader, image, damage, reads, subject, wire>>

Next ==
    \/ \E need \in 0..MaxNeed : Open(need)
    \/ \E value \in U8Vals : PutU8(value)
    \/ \E value \in U16Vals : PutU16(value)
    \/ \E value \in U32Vals : PutU32(value)
    \/ \E value \in U64Vals : PutU64(value)
    \/ \E value \in ByteStrings : PutBytes(value)
    \/ \E cnt \in ZeroCounts : PutZeroes(cnt)
    \/ Finalize
    \/ DropOpened

Spec == Init /\ [][Next]_vars

(***************************************************************************)
(* Blocks: the reader.  `bytes` is what is left to read: reading a length  *)
(* or a payload advances it, also on the calls that end in an error, while *)
(* `read` moves only when a block is returned.                             *)
(***************************************************************************)
Blocks_new(start_offset, bytes) == [start_offset |-> start_offset, read |-> 0, bytes |-> bytes]

freeze(b) == Blocks_new(b.offset, b.buf)

Got(res, block, r) == [res |-> res, block |-> block, reader |-> r]

\* A bug next_block could have: the block is tagged with its offset in the bytes,
\* not its absolute offset.
next_block_mutant_offset(r) ==
    IF Len(r.bytes) < 4
    THEN Got("None", <<>>, r)
    ELSE LET prefix == FromLE(Take(r.bytes, 4))
             rest == Drop(r.bytes, 4)
         IN  IF Len(rest) < prefix + 4 \/ prefix # FromLE(SubSeq(rest, prefix + 1, prefix + 4))
             THEN Got("InvalidBlockFormat", <<>>, [r EXCEPT !.bytes = rest])
             ELSE Got("Some",
                      <<[offset |-> r.read, read |-> 0, data |-> Take(rest, prefix)]>>,
                      [r EXCEPT !.bytes = Drop(rest, prefix + 4), !.read = @ + prefix + 2 * 4])

\* A bug next_block could have: the suffix is read and not compared.
next_block_mutant_suffix(r) ==
    IF Len(r.bytes) < 4
    THEN Got("None", <<>>, r)
    ELSE LET prefix == FromLE(Take(r.bytes, 4))
             rest == Drop(r.bytes, 4)
         IN  IF Len(rest) < prefix + 4
             THEN Got("InvalidBlockFormat", <<>>, [r EXCEPT !.bytes = rest])
             ELSE Got("Some",
                      <<[offset |-> r.start_offset + r.read, read |-> 0,
                         data |-> Take(rest, prefix)]>>,
                      [r EXCEPT !.bytes = Drop(rest, prefix + 4), !.read = @ + prefix + 2 * 4])

next_block(r) ==
    IF Len(r.bytes) < 4
    THEN Got("None", <<>>, r)
    ELSE LET local_offset == r.read
             prefix == FromLE(Take(r.bytes, 4))
             rest == Drop(r.bytes, 4)
         IN  IF Len(rest) < prefix + 4
             THEN Got("InvalidBlockFormat", <<>>, [r EXCEPT !.bytes = rest])
             ELSE LET data == Take(rest, prefix)
                      suffix == FromLE(SubSeq(rest, prefix + 1, prefix + 4))
                      after == Drop(rest, prefix + 4)
                  IN  IF prefix # suffix
                      THEN Got("InvalidBlockFormat", <<>>, [r EXCEPT !.bytes = after])
                      ELSE Got("Some",
                               <<[offset |-> r.start_offset + local_offset,
                                  read |-> 0,
                                  data |-> data]>>,
                               [r EXCEPT !.bytes = after, !.read = @ + prefix + 2 * 4])

(***************************************************************************)
(* Writing whole blocks and reading them back.  A block is written the way *)
(* LogRecord::serialize_into writes one: open(need), a sequence of puts    *)
(* that total need bytes, finalize.                                        *)
(***************************************************************************)
\* the limit of the BlocksMut in the framing specification
FrameLimit == 30
\* the number of next_block calls on one reader
MaxReads == 4
\* the largest value a damaged length field is set to
MaxField == 6

\* the put sequences a block is filled with: <<call, argument>>
Fills ==
    { <<>>,
      << <<"put_u8", 7>> >>,
      << <<"put_u16_le", 258>>, <<"put_u8", 3>> >>,
      << <<"zeroes", 4>> >>,
      << <<"put_u8", 7>>, <<"put_u32_le", U32(1)>> >>,
      << <<"put_bytes", <<5, 6>> >> >>,
      << <<"put_u64_le", U64(9)>> >> }

PutSize(p) ==
    CASE p[1] = "put_u8" -> 1
      [] p[1] = "put_u16_le" -> 2
      [] p[1] = "put_u32_le" -> 4
      [] p[1] = "put_u64_le" -> 8
      [] p[1] = "put_bytes" -> Len(p[2])
      [] p[1] = "zeroes" -> p[2]

PutGiven(p) ==
    CASE p[1] = "put_bytes" -> p[2]
      [] p[1] = "zeroes" -> Zeroes(p[2])
      [] p[1] \in {"put_u32_le", "put_u64_le"} -> LimbsLE(p[2])
      [] OTHER -> LE(p[2], PutSize(p))

RECURSIVE FillSize(_)
FillSize(fill) == IF fill = <<>> THEN 0 ELSE PutSize(Head(fill)) + FillSize(Tail(fill))

RECURSIVE FillGiven(_)
FillGiven(fill) == IF fill = <<>> THEN <<>> ELSE PutGiven(Head(fill)) \o FillGiven(Tail(fill))

PutCall(b, o, p) ==
    CASE p[1] = "put_u8" -> put_u8(b, o, p[2])
      [] p[1] = "put_u16_le" -> put_u16_le(b, o, p[2])
      [] p[1] = "put_u32_le" -> put_u32_le(b, o, p[2])
      [] p[1] = "put_u64_le" -> put_u64_le(b, o, p[2])
      [] p[1] = "put_bytes" -> put_bytes(b, o, p[2])
      [] p[1] = "zeroes" -> zeroes(b, o, p[2])

\* `?`: the next call is made only if the one before returned Ok.
Then(r, F(_, _)) == IF r.res = "Ok" THEN F(r.blocks, r.opened[1]) ELSE r

RECURSIVE PutAll(_, _)
PutAll(r, fill) ==
    IF fill = <<>> THEN r
    ELSE PutAll(Then(r, LAMBDA b, o : PutCall(b, o, Head(fill))), Tail(fill))

write_block(b, fill) ==
    LET r == Then(PutAll(open(b, FillSize(fill)), fill), LAMBDA x, o : finalize(x, o))
    IN  Ret(r.res, r.blocks, <<>>)

InitFrame ==
    /\ \E offset \in Offsets : blocks = BlocksMut_new(FrameLimit, offset, 0, <<>>)
    /\ opened = <<>>
    /\ last = [op |-> "new", arg |-> 0, res |-> "Ok", pre |-> blocks, ob |-> <<>>]
    /\ track = NoTrack
    /\ closed = <<>>
    /\ clean = TRUE
    /\ Quiet
    /\ Idle

WriteBlock(fill) ==
    /\ reader = <<>>
    /\ LET r == write_block(blocks, fill) IN
       /\ blocks' = r.blocks
       /\ last' = Call("write_block", FillSize(fill), r.res)
       /\ closed' = IF r.res = "Ok"
                    THEN Append(closed, [need |-> FillSize(fill),
                                         start |-> Len(blocks.buf),
                                         end |-> Len(r.blocks.buf),
                                         space_before |-> available_space(blocks),
                                         space_after |-> available_space(r.blocks),
                                         payload |-> FillGiven(fill)])
                    ELSE closed
       /\ clean' = (clean /\ r.res \in {"Ok", "OutOfSpace"})
    /\ UNCHANGED <<segment, writer, query, results, opened, track, reader, image, damage, reads, subject, wire>>

\* freeze consumes the BlocksMut: no block is open on it and no record writer holds it.
Freeze ==
    /\ reader = <<>>
    /\ opened = <<>>
    /\ writer = <<>>
    /\ reader' = <<freeze(blocks)>>
    /\ image' = blocks.buf
    /\ last' = Call("freeze", 0, "Ok")
    /\ UNCHANGED <<segment, writer, query, results, blocks, opened, track, closed, clean, damage, reads, subject, wire>>

\* The bytes reach the reader with one length field of block k set to another value.
Splice(bytes, at, field) == Take(bytes, at) \o field \o Drop(bytes, at + Len(field))

FreezeDamaged(k, field, value) ==
    /\ reader = <<>>
    /\ opened = <<>>
    /\ k \in 1..Len(closed)
    /\ value # closed[k].need
    /\ LET at == IF field = "prefix" THEN closed[k].start ELSE closed[k].end - 4
           bytes == Splice(blocks.buf, at, LE(value, 4))
       IN  /\ reader' = <<Blocks_new(blocks.offset, bytes)>>
           /\ image' = bytes
    /\ damage' = <<[block |-> k, field |-> field, value |-> value]>>
    /\ last' = Call("freeze", 0, "Ok")
    /\ UNCHANGED <<segment, writer, query, results, blocks, opened, track, closed, clean, reads, subject, wire>>

NextBlock ==
    /\ reader # <<>>
    /\ Len(reads) < MaxReads
    /\ LET r == next_block(reader[1]) IN
       /\ reader' = <<r.reader>>
       /\ reads' = Append(reads, [res |-> r.res, block |-> r.block])
       /\ last' = Call("next_block", 0, r.res)
    /\ UNCHANGED <<segment, writer, query, results, blocks, opened, track, closed, clean, image, damage, subject, wire>>

NextFrame ==
    \/ \E fill \in Fills : WriteBlock(fill)
    \/ Freeze
    \/ \E k \in 1..MaxReads : \E field \in {"prefix", "suffix"} : \E value \in 0..MaxField :
           FreezeDamaged(k, field, value)
    \/ NextBlock

SpecFrame == InitFrame /\ [][NextFrame]_vars

(***************************************************************************)
(* Many small blocks written to one BlocksMut created at offset 0 with     *)
(* last_mid_offset = 0.                                                    *)
(***************************************************************************)
\* the limit of the BlocksMut: room for twelve blocks without payload
ManyLimit == 96

InitMany ==
    /\ blocks = BlocksMut_new(ManyLimit, 0, 0, <<>>)
    /\ opened = <<>>
    /\ last = [op |-> "new", arg |-> 0, res |-> "Ok", pre |-> blocks, ob |-> <<>>]
    /\ track = NoTrack
    /\ closed = <<>>
    /\ clean = TRUE
    /\ Quiet
    /\ Idle

\* blocks of 0 or 1 byte of payload, until one does not fit
NextMany ==
    \E fill \in {<<>>, << <<"put_u8", 7>> >>} : last.res = "Ok" /\ WriteBlock(fill)

SpecMany == InitMany /\ [][NextMany]_vars

(***************************************************************************)
(* Block: the payload handed out by next_block, with its own read cursor.  *)
(***************************************************************************)
Val(res, value, blk) == [res |-> res, value |-> value, block |-> blk]

get_u64_le(blk) ==
    IF Len(blk.data) < blk.read + 8
    THEN Val("NotEnoughDataLeft", <<>>, blk)
    ELSE Val("Ok", LimbsFromLE(SubSeq(blk.data, blk.read + 1, blk.read + 8)),
             [blk EXCEPT !.read = @ + 8])

get_u32_le(blk) ==
    IF Len(blk.data) < blk.read + 4
    THEN Val("NotEnoughDataLeft", <<>>, blk)
    ELSE Val("Ok", LimbsFromLE(SubSeq(blk.data, blk.read + 1, blk.read + 4)),
             [blk EXCEPT !.read = @ + 4])

get_u16_le(blk) ==
    IF Len(blk.data) < blk.read + 2
    THEN Val("NotEnoughDataLeft", <<>>, blk)
    ELSE Val("Ok", FromLE(SubSeq(blk.data, blk.read + 1, blk.read + 2)),
             [blk EXCEPT !.read = @ + 2])

get_u8(blk) ==
    IF Len(blk.data) < blk.read + 1
    THEN Val("NotEnoughDataLeft", <<>>, blk)
    ELSE Val("Ok", FromLE(SubSeq(blk.data, blk.read + 1, blk.read + 1)),
             [blk EXCEPT !.read = @ + 1])

copy_to_bytes(blk, cnt) ==
    IF Len(blk.data) < blk.read + cnt
    THEN Val("NotEnoughDataLeft", <<>>, blk)
    ELSE Val("Ok", SubSeq(blk.data, blk.read + 1, blk.read + cnt),
             [blk EXCEPT !.read = @ + cnt])

remaining(blk) == IF Len(blk.data) >= blk.read THEN Len(blk.data) - blk.read ELSE 0

read_content(blk) == Take(blk.data, blk.read)

(***************************************************************************)
(* CRC-32 (crc32fast::hash): reflected polynomial 0xEDB88320, initial      *)
(* value and final xor 0xFFFFFFFF, computed bit by bit on a register of 32 *)
(* bits, least significant first.                                          *)
(***************************************************************************)
Bits(n, width) == [i \in 1..width |-> (n \div (2 ^ (i - 1))) % 2]

RECURSIVE BitsValue(_)
BitsValue(bits) == IF bits = <<>> THEN 0 ELSE bits[1] + 2 * BitsValue(Tail(bits))

Xor(x, y) == [i \in 1..32 |-> (x[i] + y[i]) % 2]

ShiftRight(x) == [i \in 1..32 |-> IF i < 32 THEN x[i + 1] ELSE 0]

CrcPoly == Bits(33568, 16) \o Bits(60856, 16)

RECURSIVE CrcRounds(_, _)
CrcRounds(crc, k) ==
    IF k = 0 THEN crc
    ELSE CrcRounds(IF crc[1] = 1 THEN Xor(ShiftRight(crc), CrcPoly) ELSE ShiftRight(crc),
                   k - 1)

\* the register after eight rounds on each byte value: the table of the bytewise form
CrcTable == [byte \in 0..255 |-> CrcRounds(Bits(byte, 8) \o Zeroes(24), 8)]

CrcStep(crc, byte) ==
    LET low == BitsValue(SubSeq(Xor(crc, Bits(byte, 8) \o Zeroes(24)), 1, 8))
    IN  Xor([i \in 1..32 |-> IF i <= 24 THEN crc[i + 8] ELSE 0], CrcTable[low])

RECURSIVE CrcUpdate(_, _)
CrcUpdate(crc, bytes) ==
    IF bytes = <<>> THEN crc ELSE CrcUpdate(CrcStep(crc, Head(bytes)), Tail(bytes))

crc32fast_hash(bytes) ==
    LET crc == CrcUpdate([i \in 1..32 |-> 1], bytes)
        out == [i \in 1..32 |-> 1 - crc[i]]
    IN  <<BitsValue(SubSeq(out, 1, 16)), BitsValue(SubSeq(out, 17, 32))>>

(***************************************************************************)
(* LogRecord.  A LogOp or LogContentType is <<"Put">>, <<"Delete">>,       *)
(* <<"Json">> or <<"Unknown", x>>.                                         *)
(***************************************************************************)
RECORD_MIN_SIZE == 1 + 1 + 2 + 4

\* A bug the conversion could have: 0x02 read as Put.
LogOp_from_u8_mutant(value) ==
    CASE value = 1 -> <<"Put">>
      [] value = 2 -> <<"Put">>
      [] OTHER -> <<"Unknown", value>>

LogOp_from_u8(value) ==
    CASE value = 1 -> <<"Put">>
      [] value = 2 -> <<"Delete">>
      [] OTHER -> <<"Unknown", value>>

LogOp_into_u8(value) ==
    CASE value[1] = "Unknown" -> value[2]
      [] value[1] = "Put" -> 1
      [] value[1] = "Delete" -> 2

LogContentType_into_u8(value) ==
    CASE value[1] = "Unknown" -> value[2]
      [] value[1] = "Json" -> 1

LogContentType_from_u8(value) ==
    CASE value = 1 -> <<"Json">>
      [] OTHER -> <<"Unknown", value>>

size_on_disk(rec) == 8 + 1 + 1 + 2 + Len(rec.data) + 4

LogRecord_serialize_into(rec, b) ==
    LET r0 == open(b, size_on_disk(rec))
        r1 == Then(r0, LAMBDA x, o : put_u64_le(x, o, rec.lsn))
        r2 == Then(r1, LAMBDA x, o : put_u8(x, o, LogOp_into_u8(rec.op)))
        r3 == Then(r2, LAMBDA x, o : put_u8(x, o, LogContentType_into_u8(rec.content_type)))
        r4 == Then(r3, LAMBDA x, o : put_u16_le(x, o, Len(rec.data) % 65536))
        r5 == Then(r4, LAMBDA x, o : put_bytes(x, o, rec.data))
        r6 == Then(r5, LAMBDA x, o : put_u32_le(x, o, crc32fast_hash(written_bytes(x, o))))
        r7 == Then(r6, LAMBDA x, o : finalize(x, o))
    IN  Ret(r7.res, r7.blocks, <<>>)

Parsed(res, record) == [res |-> res, record |-> record]

LogRecord_try_deserialize_from(bytes) ==
    IF remaining(bytes) < RECORD_MIN_SIZE THEN Parsed("TooSmall", <<>>)
    ELSE
    LET lsn == get_u64_le(bytes) IN
    IF lsn.res # "Ok" THEN Parsed(lsn.res, <<>>) ELSE
    LET op == get_u8(lsn.block) IN
    IF op.res # "Ok" THEN Parsed(op.res, <<>>) ELSE
    LET content_type == get_u8(op.block) IN
    IF content_type.res # "Ok" THEN Parsed(content_type.res, <<>>) ELSE
    LET data_len == get_u16_le(content_type.block) IN
    IF data_len.res # "Ok" THEN Parsed(data_len.res, <<>>) ELSE
    LET data == copy_to_bytes(data_len.block, data_len.value) IN
    IF data.res # "Ok" THEN Parsed(data.res, <<>>) ELSE
    LET content == read_content(data.block)
        checksum == get_u32_le(data.block)
    IN
    IF checksum.res # "Ok" THEN Parsed(checksum.res, <<>>) ELSE
    IF checksum.value # crc32fast_hash(content) THEN Parsed("ChecksumMismatch", <<>>)
    ELSE Parsed("Ok", <<[lsn |-> lsn.value,
                         op |-> LogOp_from_u8(op.value),
                         content_type |-> LogContentType_from_u8(content_type.value),
                         data |-> data.value]>>)

\* LogSegmentRecordReader::next_record
next_record(r) ==
    LET got == next_block(r) IN
    IF got.res = "Some"
    THEN [parsed |-> LogRecord_try_deserialize_from(got.block[1]), reader |-> got.reader]
    ELSE [parsed |-> Parsed(got.res, <<>>), reader |-> got.reader]

(***************************************************************************)
(* One record written, carried (intact or with one payload byte changed)   *)
(* and read back.                                                          *)
(***************************************************************************)
\* the limit of the BlocksMut in the record specification
RecordLimit == 28
\* the longest record data drawn from DataBytes
MaxData == 2

DataBytes == {0, 72}
\* the values a payload byte is changed to
DamageBytes == {0, 1, 2, 255}

RECURSIVE Strings(_)
Strings(n) ==
    IF n = 0 THEN {<<>>}
    ELSE Strings(n - 1) \cup {Append(x, y) : x \in {z \in Strings(n - 1) : Len(z) = n - 1},
                                             y \in DataBytes}

\* A record whose four data bytes are the CRC-32 of its first twelve payload bytes
\* taken with a data length of 0.
Crafted ==
    [lsn |-> U64(1), op |-> <<"Put">>, content_type |-> <<"Json">>,
     data |-> LimbsLE(crc32fast_hash(LimbsLE(U64(1)) \o <<1, 1, 0, 0>>))]

Records ==
    [lsn : {U64(1), <<65535, 65535, 65535, 65535>>},
     op : {<<"Put">>, <<"Delete">>} \cup {<<"Unknown", x>> : x \in {0, 1, 2, 255}},
     content_type : {<<"Json">>} \cup {<<"Unknown", x>> : x \in {0, 1, 123}},
     data : Strings(MaxData)]
    \cup {Crafted}

InitRecord ==
    /\ blocks = BlocksMut_new(RecordLimit, 0, 0, <<>>)
    /\ opened = <<>>
    /\ last = [op |-> "new", arg |-> 0, res |-> "Ok", pre |-> blocks, ob |-> <<>>]
    /\ track = NoTrack
    /\ closed = <<>>
    /\ clean = TRUE
    /\ reader = <<>> /\ image = <<>> /\ damage = <<>> /\ reads = <<>> /\ wire = <<>>
    /\ Idle
    /\ \E rec \in Records : subject = <<rec>>

SerializeRecord ==
    /\ subject # <<>>
    /\ reader = <<>>
    /\ last.op = "new"
    /\ LET r == LogRecord_serialize_into(subject[1], blocks) IN
       /\ blocks' = r.blocks
       /\ last' = Call("serialize_into", 0, r.res)
       /\ closed' = IF r.res = "Ok"
                    THEN <<[need |-> size_on_disk(subject[1]),
                            start |-> Len(blocks.buf),
                            end |-> Len(r.blocks.buf),
                            space_before |-> available_space(blocks),
                            space_after |-> available_space(r.blocks),
                            payload |-> SubSeq(r.blocks.buf, 5, Len(r.blocks.buf) - 4)]>>
                    ELSE closed
    /\ UNCHANGED <<segment, writer, query, results, opened, track, clean, reader, image, damage, reads, subject, wire>>

\* The bytes reach the reader with the payload byte at `pos` (from 0) set to `value`.
FreezeFlipped(pos, value) ==
    /\ reader = <<>>
    /\ Len(closed) = 1
    /\ pos < closed[1].need
    /\ value # blocks.buf[4 + pos + 1]
    /\ LET bytes == Splice(blocks.buf, 4 + pos, <<value>>) IN
       /\ reader' = <<Blocks_new(blocks.offset, bytes)>>
       /\ image' = bytes
    /\ damage' = <<[pos |-> pos, value |-> value]>>
    /\ last' = Call("freeze", 0, "Ok")
    /\ UNCHANGED <<segment, writer, query, results, blocks, opened, track, closed, clean, reads, subject, wire>>

NextRecord ==
    /\ reader # <<>>
    /\ Len(reads) < 2
    /\ LET r == next_record(reader[1]) IN
       /\ reader' = <<r.reader>>
       /\ reads' = Append(reads, r.parsed)
       /\ last' = Call("next_record", 0, r.parsed.res)
    /\ UNCHANGED <<segment, writer, query, results, blocks, opened, track, closed, clean, image, damage, subject, wire>>

NextRecordSpec ==
    \/ SerializeRecord
    \/ Freeze
    \/ \E pos \in 0..(RecordLimit - 9) : \E value \in DamageBytes : FreezeFlipped(pos, value)
    \/ NextRecord

SpecRecord == InitRecord /\ [][NextRecordSpec]_vars

(***************************************************************************)
(* One block with a payload of any small length, written, frozen and read  *)
(* as a record.                                                            *)
(***************************************************************************)
\* the longest payload written
MaxPayload == 17

\* the payloads: every length up to MaxPayload, of zero or of 0xFF bytes
ShortPayloads == {[i \in 1..n |-> byte] : n \in 0..MaxPayload, byte \in {0, 255}}

NextShort ==
    \/ \E payload \in ShortPayloads :
           closed = <<>> /\ WriteBlock(<< <<"put_bytes", payload>> >>)
    \/ Freeze
    \/ NextRecord

SpecShort == InitFrame /\ [][NextShort]_vars

(***************************************************************************)
(* LogSegFooter: [sealed, first_lsn, last_lsn, checksum].                  *)
(***************************************************************************)
MAGIC_NUM == 1464945664

SEGMENT_FOOTER_SIZE == 128

\* A bug serialize_into could have: the padding not shortened by the checksum.
LogSegFooter_serialize_into_mutant(f, buf) ==
    LET prefix == 4 + 1 + 2 * 8 IN
    buf \o LimbsLE(U32(MAGIC_NUM)) \o <<IF f.sealed THEN 1 ELSE 0>> \o LimbsLE(f.first_lsn)
        \o (IF f.sealed
            THEN LimbsLE(f.last_lsn) \o Zeroes(SEGMENT_FOOTER_SIZE - prefix)
                     \o LimbsLE(f.checksum)
            ELSE LimbsLE(U64(0)) \o Zeroes(SEGMENT_FOOTER_SIZE - prefix)
                     \o LimbsLE(U32(0)))

LogSegFooter_serialize_into(f, buf) ==
    LET prefix == 4 + 1 + 2 * 8 IN
    buf \o LimbsLE(U32(MAGIC_NUM)) \o <<IF f.sealed THEN 1 ELSE 0>> \o LimbsLE(f.first_lsn)
        \o (IF f.sealed
            THEN LimbsLE(f.last_lsn) \o Zeroes(SEGMENT_FOOTER_SIZE - (prefix + 4))
                     \o LimbsLE(f.checksum)
            ELSE LimbsLE(U64(0)) \o Zeroes(SEGMENT_FOOTER_SIZE - (prefix + 4))
                     \o LimbsLE(U32(0)))

LogSegFooter_try_deserialize_from(bytes) ==
    IF Len(bytes) < SEGMENT_FOOTER_SIZE THEN Parsed("TooSmall", <<>>)
    ELSE
    LET checksum_part == SubSeq(bytes, SEGMENT_FOOTER_SIZE - 4 + 1, SEGMENT_FOOTER_SIZE) IN
    IF LimbsFromLE(SubSeq(bytes, 1, 4)) # U32(MAGIC_NUM) THEN Parsed("WrongFileFormat", <<>>)
    ELSE
    IF bytes[5] \notin {0, 1} THEN Parsed("WrongFileFormat", <<>>)
    ELSE
    LET sealed == (bytes[5] = 1)
        first_lsn == LimbsFromLE(SubSeq(bytes, 6, 13))
    IN  Parsed("Ok", <<[sealed |-> sealed,
                        first_lsn |-> first_lsn,
                        last_lsn |-> IF sealed THEN LimbsFromLE(SubSeq(bytes, 14, 21))
                                     ELSE U64(0),
                        checksum |-> IF sealed THEN LimbsFromLE(checksum_part)
                                     ELSE U32(0)]>>)

LogSegFooter_new(first_lsn) ==
    [sealed |-> FALSE, first_lsn |-> first_lsn, last_lsn |-> U64(0), checksum |-> U32(0)]

\* the footer of LogSegment::new
LogSegment_new_footer ==
    [sealed |-> FALSE,
     first_lsn |-> <<65535, 65535, 65535, 65535>>,
     last_lsn |-> <<65535, 65535, 65535, 65535>>,
     checksum |-> <<65535, 65535>>]

(***************************************************************************)
(* One footer serialized into an empty buffer and read back.               *)
(***************************************************************************)
Footers ==
    [sealed : BOOLEAN,
     first_lsn : {U64(0), U64(3), <<65535, 65535, 65535, 65535>>},
     last_lsn : {U64(0), U64(53), <<65535, 65535, 65535, 65535>>},
     checksum : {U32(0), U32(123), <<65535, 65535>>}]

InitFooter ==
    /\ blocks = BlocksMut_new(0, 0, 0, <<>>)
    /\ opened = <<>>
    /\ last = [op |-> "new", arg |-> 0, res |-> "Ok", pre |-> blocks, ob |-> <<>>]
    /\ track = NoTrack
    /\ closed = <<>>
    /\ clean = TRUE
    /\ reader = <<>> /\ image = <<>> /\ damage = <<>> /\ reads = <<>> /\ wire = <<>>
    /\ Idle
    /\ \E f \in Footers \cup {LogSegment_new_footer} \cup {LogSegFooter_new(U64(3))} :
           subject = <<f>>

SerializeFooter ==
    /\ last.op = "new"
    /\ wire' = LogSegFooter_serialize_into(subject[1], <<>>)
    /\ last' = Call("serialize_into", 0, "Ok")
    /\ UNCHANGED <<segment, writer, query, results, blocks, opened, track, closed, clean, reader, image, damage, reads,
                   subject>>

DeserializeFooter ==
    /\ last.op = "serialize_into"
    /\ LET r == LogSegFooter_try_deserialize_from(wire) IN
       /\ reads' = <<r>>
       /\ last' = Call("try_deserialize_from", 0, r.res)
    /\ UNCHANGED <<segment, writer, query, results, blocks, opened, track, closed, clean, reader, image, damage, subject,
                   wire>>

NextFooter == SerializeFooter \/ DeserializeFooter

SpecFooter == InitFooter /\ [][NextFooter]_vars

(***************************************************************************)
(* LogSegment, its record writer and reading at a midpoint.                *)
(***************************************************************************)
SEGMENT_VERSION == 1

LogSegment_new(segment_id) ==
    [header |-> [version |-> SEGMENT_VERSION, segment_id |-> segment_id],
     footer |-> LogSegment_new_footer]

is_sealed(seg) == seg.footer.sealed

\* A bug record_writer could have: a writer whatever the footer says.
record_writer_mutant(seg, b) == <<[blocks |-> b, cached_last_lsn |-> <<>>]>>

\* Option<LogSegmentRecordWriter>
record_writer(seg, b) ==
    IF is_sealed(seg) THEN <<>> ELSE <<[blocks |-> b, cached_last_lsn |-> <<>>]>>

\* A bug append could have: the lsn cached before the record is written.
append_mutant(w, record) ==
    LET r == LogRecord_serialize_into(record, w.blocks) IN
    [res |-> r.res,
     offset |-> IF r.res = "Ok" THEN <<projected_offset(r.blocks)>> ELSE <<>>,
     writer |-> [blocks |-> r.blocks, cached_last_lsn |-> <<record.lsn>>]]

append(w, record) ==
    LET r == LogRecord_serialize_into(record, w.blocks) IN
    IF r.res # "Ok"
    THEN [res |-> r.res, offset |-> <<>>, writer |-> [w EXCEPT !.blocks = r.blocks]]
    ELSE [res |-> "Ok",
          offset |-> <<projected_offset(r.blocks)>>,
          writer |-> [blocks |-> r.blocks, cached_last_lsn |-> <<record.lsn>>]]

LogSegmentRecordWriter_finalize(w) == w.blocks

\* A bug at could have: the new cursor keeps the start offset of the old one.
at_mutant(r, offset) ==
    IF offset < r.start_offset \/ r.start_offset + Len(r.bytes) < offset
    THEN [res |-> "OffsetOutOfBound", blocks |-> <<>>]
    ELSE [res |-> "Ok",
          blocks |-> <<[start_offset |-> r.start_offset, read |-> 0,
                        bytes |-> Drop(r.bytes, offset - r.start_offset)]>>]

at(r, offset) ==
    IF offset < r.start_offset \/ r.start_offset + Len(r.bytes) < offset
    THEN [res |-> "OffsetOutOfBound", blocks |-> <<>>]
    ELSE [res |-> "Ok",
          blocks |-> <<[start_offset |-> offset, read |-> 0,
                        bytes |-> Drop(r.bytes, offset - r.start_offset)]>>]

(***************************************************************************)
(* A segment hands out a record writer, records are appended, the writer   *)
(* is finalized and frozen, and the block at each midpoint is read.        *)
(***************************************************************************)
\* the limit of the BlocksMut handed to record_writer: mid_freq is 24, the size of
\* the block of a record without data
WalLimit == 240
\* the offsets that BlocksMut is created at
WalOffsets == {0, 128}
\* the data of the records appended
WalData == {<<>>, <<72, 105>>}

sealed_segment ==
    [header |-> [version |-> 1, segment_id |-> U64(2)],
     footer |-> [sealed |-> TRUE, first_lsn |-> U64(1), last_lsn |-> U64(2),
                 checksum |-> U32(3)]]

InitWal ==
    /\ \E offset \in WalOffsets : blocks = BlocksMut_new(WalLimit, offset, 0, <<>>)
    /\ opened = <<>>
    /\ last = [op |-> "new", arg |-> 0, res |-> "Ok", pre |-> blocks, ob |-> <<>>]
    /\ track = NoTrack
    /\ closed = <<>>
    /\ clean = TRUE
    /\ Quiet
    /\ segment \in {<<LogSegment_new(U64(0))>>, <<sealed_segment>>}
    /\ writer = <<>> /\ query = <<>> /\ results = <<>>

RecordWriter ==
    /\ last.op = "new"
    /\ writer' = record_writer(segment[1], blocks)
    /\ last' = [op |-> "record_writer", arg |-> 0,
                res |-> IF writer' = <<>> THEN "None" ELSE "Some",
                pre |-> blocks, ob |-> <<>>]
    /\ UNCHANGED <<blocks, opened, track, closed, clean, reader, image, damage, reads,
                   subject, wire, segment, query, results>>

\* `closed` keeps, for every append that returned Ok, where its block starts, the
\* record and the offset returned.
AppendRecord(record) ==
    /\ writer # <<>>
    /\ LET r == append(writer[1], record) IN
       /\ writer' = <<r.writer>>
       /\ last' = [op |-> "append", arg |-> record, res |-> r.res,
                   pre |-> writer[1], ob |-> r.offset]
       /\ closed' = IF r.res = "Ok"
                    THEN Append(closed,
                                [start |-> projected_offset(writer[1].blocks),
                                 record |-> record])
                    ELSE closed
    /\ UNCHANGED <<blocks, opened, track, clean, reader, image, damage, reads, subject,
                   wire, segment, query, results>>

\* writer.finalize(): the BlocksMut comes back
WriterFinalize ==
    /\ writer # <<>>
    /\ blocks' = LogSegmentRecordWriter_finalize(writer[1])
    /\ writer' = <<>>
    /\ last' = [op |-> "writer_finalize", arg |-> 0, res |-> "Ok", pre |-> blocks,
                ob |-> <<>>]
    /\ UNCHANGED <<opened, track, closed, clean, reader, image, damage, reads, subject,
                   wire, segment, query, results>>

\* blocks.at(midpoints[i]), next_block on the cursor returned and
\* try_deserialize_from on the block, midpoint after midpoint
ReadAt ==
    /\ reader # <<>>
    /\ Len(reads) < Len(blocks.midpoints)
    /\ LET m == blocks.midpoints[Len(reads) + 1]
           cursor == at(reader[1], m)
           got == IF cursor.res = "Ok" THEN next_block(cursor.blocks[1])
                  ELSE Got(cursor.res, <<>>, <<>>)
           parsed == IF got.res = "Some" THEN LogRecord_try_deserialize_from(got.block[1])
                     ELSE Parsed(got.res, <<>>)
       IN  /\ reads' = Append(reads, [midpoint |-> m, at |-> cursor.res,
                                      block |-> got.block, parsed |-> parsed])
           /\ last' = [op |-> "at", arg |-> m, res |-> parsed.res, pre |-> blocks,
                       ob |-> <<>>]
    /\ UNCHANGED <<blocks, opened, track, closed, clean, reader, image, damage, subject,
                   wire, segment, writer, query, results>>

NextWal ==
    \/ RecordWriter
    \/ \E data \in WalData :
           AppendRecord([lsn |-> U64(Len(closed) + 1),
                    op |-> IF data = <<>> THEN <<"Put">> ELSE <<"Delete">>,
                    content_type |-> <<"Unknown", 123>>,
                    data |-> data])
    \/ WriterFinalize
    \/ Freeze
    \/ ReadAt

SpecWal == InitWal /\ [][NextWal]_vars

(***************************************************************************)
(* Blocks::at on a cursor in any state: blocks are written and frozen,     *)
(* next_block consumes some of them, and at(offset) is called on the       *)
(* cursor, followed by next_block on the cursor it returns.  at takes      *)
(* &self: the cursor it is called on stays as it is.                       *)
(***************************************************************************)
BlocksAt(offset) ==
    /\ reader # <<>>
    /\ LET cursor == at(reader[1], offset)
           got == IF cursor.res = "Ok" THEN next_block(cursor.blocks[1])
                  ELSE Got(cursor.res, <<>>, <<>>)
       IN  last' = [op |-> "at", arg |-> offset, res |-> cursor.res, pre |-> reader[1],
                    ob |-> [cursor |-> cursor.blocks, res |-> got.res, block |-> got.block]]
    /\ UNCHANGED <<blocks, opened, track, closed, clean, reader, image, damage, reads,
                   subject, wire, segment, writer, query, results>>

NextAt ==
    \/ \E fill \in Fills : WriteBlock(fill)
    \/ Freeze
    \/ NextBlock
    \/ \E offset \in 0..(FrameLimit + 1) : BlocksAt(offset)

SpecAt == InitFrame /\ [][NextAt]_vars

(***************************************************************************)
(* Midpoints: a table of (lsn, offset) pairs.  Indexes are from 0 as in    *)
(* the source; element idx of the Vec is inner[idx + 1].                   *)
(***************************************************************************)
\* slice::binary_search_by on a table whose lsns increase strictly: Ok(idx) of the
\* entry with that lsn, or Err(idx) with idx the number of entries with a smaller lsn
binary_search_by(inner, lns) ==
    IF \E i \in 1..Len(inner) : inner[i].lsn = lns
    THEN [found |-> TRUE, idx |-> (CHOOSE i \in 1..Len(inner) : inner[i].lsn = lns) - 1]
    ELSE [found |-> FALSE, idx |-> Cardinality({i \in 1..Len(inner) : inner[i].lsn < lns})]

\* Indexing a Vec outside its length panics.
offset_for_lsn(inner, lns) ==
    IF inner = <<>> THEN [res |-> "Ok", value |-> 0]
    ELSE LET r == binary_search_by(inner, lns) IN
         IF r.idx < Len(inner)
         THEN [res |-> "Ok", value |-> inner[r.idx + 1].offset]
         ELSE [res |-> "panic", value |-> 0]

\* the largest lsn of a midpoint
MaxLsn == 4
\* the largest number of midpoints in a table
MaxMidpoints == 3

\* the block of lsn l starts at 24 * l
RECURSIVE Table(_, _)
Table(lsns, from) ==
    IF from > MaxLsn THEN <<>>
    ELSE IF from \in lsns THEN <<[lsn |-> from, offset |-> 24 * from]>> \o Table(lsns, from + 1)
    ELSE Table(lsns, from + 1)

\* the tables sorted by lsn
Tables == {Table(lsns, 1) : lsns \in {l \in SUBSET (1..MaxLsn) : Cardinality(l) <= MaxMidpoints}}

InitMidpoints ==
    /\ blocks = BlocksMut_new(0, 0, 0, <<>>)
    /\ opened = <<>>
    /\ last = [op |-> "new", arg |-> 0, res |-> "Ok", pre |-> blocks, ob |-> <<>>]
    /\ track = NoTrack
    /\ closed = <<>>
    /\ clean = TRUE
    /\ reader = <<>> /\ image = <<>> /\ damage = <<>> /\ reads = <<>> /\ wire = <<>>
    /\ Idle
    /\ \E inner \in Tables : \E lns \in 0..(MaxLsn + 1) :
           subject = <<[inner |-> inner, lns |-> lns]>>

OffsetForLsn ==
    /\ last.op = "new"
    /\ LET r == offset_for_lsn(subject[1].inner, subject[1].lns) IN
       /\ reads' = <<r>>
       /\ last' = Call("offset_for_lsn", subject[1].lns, r.res)
    /\ UNCHANGED <<blocks, opened, track, closed, clean, reader, image, damage, subject,
                   wire, segment, writer, query, results>>

NextMidpoints == OffsetForLsn

SpecMidpoints == InitMidpoints /\ [][NextMidpoints]_vars

(***************************************************************************)
(* Midpoints::serialize_into.  BytesMut::advance is the one of bytes::Buf: *)
(* it moves the read cursor, that is it drops bytes from the front of the  *)
(* buffer, and panics when asked to drop more than the buffer holds.       *)
(***************************************************************************)
MIDPOINT_SECTION_SIZE == 128

MIDPOINT_SIZE == 8 + 4

MIDPOINT_MAX_COUNT == MIDPOINT_SECTION_SIZE \div MIDPOINT_SIZE

\* the for loop: put_u64_le(mid.lsn), put_u32_le(mid.offset)
RECURSIVE put_midpoints(_, _)
put_midpoints(buf, inner) ==
    IF inner = <<>> THEN buf
    ELSE put_midpoints(buf \o LimbsLE(U64(Head(inner).lsn)) \o LE(Head(inner).offset, 4),
                       Tail(inner))

Midpoints_serialize_into(inner, buf) ==
    IF Len(inner) > MIDPOINT_MAX_COUNT THEN [res |-> "TooManyMidpoints", buf |-> buf]
    ELSE LET put == put_midpoints(buf, inner)
             written == Len(inner) * MIDPOINT_SIZE
             mid_offset == MIDPOINT_SECTION_SIZE - 2
         IN  IF mid_offset - written > Len(put)
             THEN [res |-> "panic", buf |-> put]
             ELSE [res |-> "Ok", buf |-> Drop(put, mid_offset - written) \o LE(Len(inner), 2)]

\* the largest number of midpoints in the table serialized
MaxCount == 11

\* the table of k midpoints: lsn i at offset 24 * i
MidpointsOf(k) == [i \in 1..k |-> [lsn |-> i, offset |-> 24 * i]]

\* the bytes the buffer holds before the call: none, a few, a segment header's worth
BuffersBefore == {[i \in 1..n |-> 1 + (i % 7)] : n \in {0, 1, 6, 126, 128, 131}}

InitSection ==
    /\ blocks = BlocksMut_new(0, 0, 0, <<>>)
    /\ opened = <<>>
    /\ last = [op |-> "new", arg |-> 0, res |-> "Ok", pre |-> blocks, ob |-> <<>>]
    /\ track = NoTrack
    /\ closed = <<>>
    /\ clean = TRUE
    /\ reader = <<>> /\ image = <<>> /\ damage = <<>> /\ reads = <<>>
    /\ Idle
    /\ \E k \in 0..MaxCount : \E buf \in BuffersBefore :
           /\ subject = <<[inner |-> MidpointsOf(k), buf |-> buf]>>
           /\ wire = buf

SerializeMidpoints ==
    /\ last.op = "new"
    /\ LET r == Midpoints_serialize_into(subject[1].inner, wire) IN
       /\ wire' = r.buf
       /\ last' = Call("serialize_into", Len(subject[1].inner), r.res)
    /\ UNCHANGED <<blocks, opened, track, closed, clean, reader, image, damage, reads,
                   subject, segment, writer, query, results>>

NextSection == SerializeMidpoints

SpecSection == InitSection /\ [][NextSection]_vars

(***************************************************************************)
(* QueryValue and its order.  A value is <<"Null">>, <<"String", s>> with  *)
(* s a sequence of bytes, <<"Number", x>> or <<"Bool", b>>.  A number is   *)
(* [neg, abs]: its sign bit and its magnitude, so that -0.0 and 0.0 are    *)
(* two values.                                                             *)
(***************************************************************************)
type_order(v) ==
    CASE v[1] = "Null" -> 0
      [] v[1] = "String" -> 1
      [] v[1] = "Number" -> 2
      [] v[1] = "Bool" -> 3

Ordering(a, b) == IF a < b THEN "Less" ELSE IF a > b THEN "Greater" ELSE "Equal"

\* f64::total_cmp: the negative numbers, -0.0, 0.0, the positive numbers
total_cmp(x, y) ==
    LET rank(z) == IF z.neg THEN 0 - 2 * z.abs - 1 ELSE 2 * z.abs IN
    Ordering(rank(x), rank(y))

\* Ord for String: lexicographic on the bytes
RECURSIVE String_cmp(_, _)
String_cmp(a, b) ==
    IF a = <<>> THEN (IF b = <<>> THEN "Equal" ELSE "Less")
    ELSE IF b = <<>> THEN "Greater"
    ELSE IF Head(a) # Head(b) THEN Ordering(Head(a), Head(b))
    ELSE String_cmp(Tail(a), Tail(b))

\* impl Ord for QueryValue
cmp(a, b) ==
    CASE a[1] = "Null" /\ b[1] = "Null" -> "Equal"
      [] a[1] = "String" /\ b[1] = "String" -> String_cmp(a[2], b[2])
      [] a[1] = "Bool" /\ b[1] = "Bool" ->
             Ordering(IF a[2] THEN 1 ELSE 0, IF b[2] THEN 1 ELSE 0)
      [] a[1] = "Number" /\ b[1] = "Number" -> total_cmp(a[2], b[2])
      [] OTHER -> Ordering(type_order(a), type_order(b))

(***************************************************************************)
(* QueryOrderer.  The BTreeMap is the sequence of its entries [key,        *)
(* values] in the order of cmp; an iterator is the sequence of what it has *)
(* still to yield.                                                         *)
(***************************************************************************)
Reverse(seq) == [i \in 1..Len(seq) |-> seq[Len(seq) + 1 - i]]

QueryOrderer_new(order) ==
    [order |-> order, order_map |-> <<<<>>>>, order_iter |-> <<>>, batch_iter |-> <<>>]

\* BTreeMap::entry(key).or_default().push(value)
RECURSIVE entry_push(_, _, _)
entry_push(map, key, value) ==
    IF map = <<>> THEN <<[key |-> key, values |-> <<value>>]>>
    ELSE LET c == cmp(key, Head(map).key) IN
         IF c = "Equal"
         THEN <<[Head(map) EXCEPT !.values = Append(@, value)]>> \o Tail(map)
         ELSE IF c = "Less"
         THEN <<[key |-> key, values |-> <<value>>]>> \o map
         ELSE <<Head(map)>> \o entry_push(Tail(map), key, value)

insert(o, key, value) ==
    IF o.order_map # <<>>
    THEN [o EXCEPT !.order_map = <<entry_push(o.order_map[1], key, value)>>]
    ELSE o

\* A bug set_next_batch could have: the batch is never reversed.
set_next_batch_mutant(o, values) == [o EXCEPT !.batch_iter = <<values>>]

set_next_batch(o, values) ==
    [o EXCEPT !.batch_iter = <<IF o.order = "Asc" THEN values ELSE Reverse(values)>>]

\* A bug prepare_for_streaming could have: the keys always ascending.
prepare_for_streaming_mutant(o) ==
    IF o.order_map = <<>> THEN [res |-> "None", orderer |-> o]
    ELSE LET map == o.order_map[1]
             o1 == [o EXCEPT !.order_map = <<>>]
             order_iter == [i \in 1..Len(map) |-> map[i].values]
         IN  IF order_iter = <<>> THEN [res |-> "None", orderer |-> o1]
             ELSE [res |-> "Some",
                   orderer |-> set_next_batch([o1 EXCEPT !.order_iter = <<Tail(order_iter)>>],
                                              Head(order_iter))]

\* Option<()> with the orderer after the call
prepare_for_streaming(o) ==
    IF o.order_map = <<>> THEN [res |-> "None", orderer |-> o]
    ELSE LET map == o.order_map[1]
             o1 == [o EXCEPT !.order_map = <<>>]
             values == [i \in 1..Len(map) |-> map[i].values]
             order_iter == IF o.order = "Asc" THEN values ELSE Reverse(values)
         IN  IF order_iter = <<>> THEN [res |-> "None", orderer |-> o1]
             ELSE [res |-> "Some",
                   orderer |-> set_next_batch([o1 EXCEPT !.order_iter = <<Tail(order_iter)>>],
                                              Head(order_iter))]

\* Option<QueryValue> with the orderer after the call
RECURSIVE QueryOrderer_next(_)
QueryOrderer_next(o) ==
    IF o.batch_iter = <<>> THEN [value |-> <<>>, orderer |-> o]
    ELSE LET batch == o.batch_iter[1]
             o1 == [o EXCEPT !.batch_iter = <<>>]
         IN  IF batch # <<>>
             THEN [value |-> <<Head(batch)>>,
                   orderer |-> [o1 EXCEPT !.batch_iter = <<Tail(batch)>>]]
             ELSE IF o1.order_iter = <<>> \/ o1.order_iter[1] = <<>>
             THEN [value |-> <<>>, orderer |-> o1]
             ELSE QueryOrderer_next(
                      set_next_batch([o1 EXCEPT !.order_iter = <<Tail(@[1])>>],
                                     Head(o1.order_iter[1])))

(***************************************************************************)
(* Sources and EventQuery.  A source is the sequence of the items it has   *)
(* still to yield, [res |-> "Ok", row |-> <<row>>] or [res |-> "Err"]; the *)
(* sources are listed in the iteration order of the HashMap.  A row says   *)
(* what the query's expressions evaluate to when it is bound: pred is      *)
(* "true", "false" or "err"; key is the ORDER BY key; proj is "ok" or      *)
(* "err" and value the projection; the key <<"Err">> is an ORDER BY        *)
(* expression that fails.  The expressions read the row of the first       *)
(* source.                                                                 *)
(***************************************************************************)
\* Interpreter::env_mut: the environment, cleared
env_mut(srcs) == [i \in 1..Len(srcs) |-> <<>>]

\* Sources::fill: Option<EvalResult<()>> with the sources and the buffer after it
RECURSIVE fill_from(_, _, _)
fill_from(srcs, buffer, i) ==
    IF i > Len(srcs) THEN [res |-> "Ok", srcs |-> srcs, buffer |-> buffer]
    ELSE IF srcs[i] = <<>> THEN [res |-> "None", srcs |-> srcs, buffer |-> buffer]
    ELSE LET item == Head(srcs[i])
             rest == [srcs EXCEPT ![i] = Tail(@)]
         IN  IF item.res = "Err" THEN [res |-> "Err", srcs |-> rest, buffer |-> buffer]
             ELSE fill_from(rest, [buffer EXCEPT ![i] = item.row], i + 1)

fill(srcs, buffer) == fill_from(srcs, buffer, 1)

eval_predicate(env) == env[1][1].pred

EventQuery_new(srcs, limit, order_by) ==
    [srcs |-> srcs,
     limit |-> limit,
     order_by |-> order_by,
     env |-> env_mut(srcs),
     orderer |-> QueryOrderer_new(IF order_by = <<>> THEN "Asc" ELSE order_by[1]),
     completed |-> FALSE,
     skipped |-> 0,
     emitted |-> 0]

Item(res, value) == <<[res |-> res, value |-> value]>>

\* A bug next could have: a call that returns Err ends the iteration.
Pull_mutant(item, q) ==
    [item |-> item,
     query |-> IF item # <<>> /\ item[1].res = "Err" THEN [q EXCEPT !.completed = TRUE] ELSE q]

Pull(item, q) == [item |-> item, query |-> q]

\* A bug the TOP check could have: one value too many.
TopReached_mutant(q) == q.limit # <<>> /\ q.limit[1].kind = "Top" /\ q.emitted > q.limit[1].n

\* Some(Limit::Top(n)) = self.query.limit && self.emitted >= n
TopReached(q) == q.limit # <<>> /\ q.limit[1].kind = "Top" /\ q.emitted >= q.limit[1].n

\* A bug the SKIP check could have: one value too many is discarded.
SkipPending_mutant(q) == q.limit # <<>> /\ q.limit[1].kind = "Skip" /\ q.skipped <= q.limit[1].n

\* Some(Limit::Skip(n)) = self.query.limit && self.skipped < n
SkipPending(q) == q.limit # <<>> /\ q.limit[1].kind = "Skip" /\ q.skipped < q.limit[1].n

\* A bug the ORDER BY branch could have: SKIP applied to the rows as they
\* arrive, before they are sorted.
Buffered_mutant(q, row) ==
    IF SkipPending(q) THEN [q EXCEPT !.skipped = @ + 1]
    ELSE [q EXCEPT !.orderer = insert(@, row.key, row.value)]

\* self.orderer.insert(key, value): the row held until the sources are exhausted
Buffered(q, row) == [q EXCEPT !.orderer = insert(@, row.key, row.value)]

\* EventQuery::next: Option<EvalResult<QueryValue>> with the query after the call
RECURSIVE EventQuery_next(_)
EventQuery_next(q) ==
    IF q.completed
    THEN IF TopReached(q) THEN Pull(<<>>, q)
         ELSE LET r == QueryOrderer_next(q.orderer)
                  q1 == [q EXCEPT !.orderer = r.orderer]
              IN  IF r.value = <<>> THEN Pull(<<>>, q1)
                  ELSE IF SkipPending(q1)
                  THEN EventQuery_next([q1 EXCEPT !.skipped = @ + 1])
                  ELSE Pull(Item("Ok", r.value[1]), [q1 EXCEPT !.emitted = @ + 1])
    ELSE LET f == fill(q.srcs, env_mut(q.srcs))
             q1 == [q EXCEPT !.srcs = f.srcs, !.env = f.buffer]
         IN
         IF f.res = "Err" THEN Pull(Item("Err", "source"), q1)
         ELSE IF f.res = "None"
         THEN LET p == prepare_for_streaming(q1.orderer)
                  q2 == [q1 EXCEPT !.completed = TRUE, !.orderer = p.orderer]
              IN  IF p.res = "None" THEN Pull(<<>>, q2) ELSE EventQuery_next(q2)
         ELSE LET row == q1.env[1][1] IN
         IF eval_predicate(q1.env) = "err" THEN Pull(Item("Err", "predicate"), q1)
         ELSE IF eval_predicate(q1.env) = "false" THEN EventQuery_next(q1)
         ELSE IF q1.order_by # <<>>
         THEN IF row.key[1] = "Err" THEN Pull(Item("Err", "order_by"), q1)
              ELSE IF row.proj = "err" THEN Pull(Item("Err", "projection"), q1)
              ELSE EventQuery_next(Buffered(q1, row))
         ELSE IF TopReached(q1) THEN Pull(<<>>, q1)
         ELSE IF row.proj = "err" THEN Pull(Item("Err", "projection"), q1)
         ELSE IF SkipPending(q1) THEN EventQuery_next([q1 EXCEPT !.skipped = @ + 1])
         ELSE Pull(Item("Ok", row.value), [q1 EXCEPT !.emitted = @ + 1])

(***************************************************************************)
(* A scalar query over one source, pulled until after it is exhausted.     *)
(***************************************************************************)
\* the largest number of rows of the source
MaxRows == 3
\* the largest n of TOP(n) and SKIP(n)
MaxLimit == 3
\* the next calls made after the source has no row left
MorePulls == 2

\* the ORDER BY keys: a string, -0.0 and 0.0
Keys == {<<"String", <<97>>>>, <<"Number", [neg |-> TRUE, abs |-> 0]>>,
         <<"Number", [neg |-> FALSE, abs |-> 0]>>}

\* what a source yields for one row, its projection aside
Outcomes ==
    [res : {"Ok"}, pred : {"true"}, proj : {"ok"}, key : Keys]
    \cup {[res |-> "Ok", pred |-> "false", proj |-> "ok", key |-> <<"Null">>],
          [res |-> "Ok", pred |-> "err", proj |-> "ok", key |-> <<"Null">>],
          [res |-> "Ok", pred |-> "true", proj |-> "err", key |-> <<"Null">>],
          [res |-> "Ok", pred |-> "true", proj |-> "ok", key |-> <<"Err">>],
          [res |-> "Err", pred |-> "true", proj |-> "ok", key |-> <<"Null">>]}

\* the projection of the i-th row is i
Source(outcomes) ==
    [i \in 1..Len(outcomes) |->
        IF outcomes[i].res = "Err" THEN [res |-> "Err", row |-> <<>>]
        ELSE [res |-> "Ok",
              row |-> <<[pred |-> outcomes[i].pred, key |-> outcomes[i].key,
                         proj |-> outcomes[i].proj, value |-> i]>>]]

SourcesOf(n) == {Source(outcomes) : outcomes \in [1..n -> Outcomes]}

Limits == {<<>>} \cup {<<[kind |-> kind, n |-> n]>> : kind \in {"Top", "Skip"}, n \in 0..MaxLimit}

InitQuery ==
    /\ blocks = BlocksMut_new(0, 0, 0, <<>>)
    /\ opened = <<>>
    /\ last = [op |-> "new", arg |-> 0, res |-> "Ok", pre |-> blocks, ob |-> <<>>]
    /\ track = NoTrack
    /\ closed = <<>>
    /\ clean = TRUE
    /\ reader = <<>> /\ image = <<>> /\ damage = <<>> /\ reads = <<>> /\ wire = <<>>
    /\ segment = <<>> /\ writer = <<>> /\ results = <<>>
    /\ \E n \in 0..MaxRows : \E src \in SourcesOf(n) : \E limit \in Limits :
       \E order_by \in {<<>>, <<"Asc">>, <<"Desc">>} :
           /\ subject = <<src>>
           /\ query = <<EventQuery_new(<<src>>, limit, order_by)>>

\* `subject` keeps the rows the source started with.
EventQueryNext ==
    /\ query # <<>>
    /\ Len(results) < Len(subject[1]) + MorePulls
    /\ LET r == EventQuery_next(query[1]) IN
       /\ query' = <<r.query>>
       /\ results' = Append(results, r.item)
    /\ UNCHANGED <<codec, segment, writer>>

NextQuery == EventQueryNext

SpecQuery == InitQuery /\ [][NextQuery]_vars

(***************************************************************************)
(* Sources over two bindings: a Sources that is filled directly, and a     *)
(* scalar query without TOP, SKIP or ORDER BY that owns an equal one.      *)
(* `subject` holds the Sources, `reads` the fill calls made on it.         *)
(***************************************************************************)
\* the largest number of rows of each of the two sources
MaxJoin == 2

\* what a source of the two yields for one row
JoinOutcomes ==
    {[res |-> "Ok", pred |-> "true", proj |-> "ok", key |-> <<"Null">>],
     [res |-> "Ok", pred |-> "false", proj |-> "ok", key |-> <<"Null">>],
     [res |-> "Err", pred |-> "true", proj |-> "ok", key |-> <<"Null">>]}

JoinSources(n) == {Source(outcomes) : outcomes \in [1..n -> JoinOutcomes]}

InitSources ==
    /\ blocks = BlocksMut_new(0, 0, 0, <<>>)
    /\ opened = <<>>
    /\ last = [op |-> "new", arg |-> 0, res |-> "Ok", pre |-> blocks, ob |-> <<>>]
    /\ track = NoTrack
    /\ closed = <<>>
    /\ clean = TRUE
    /\ reader = <<>> /\ image = <<>> /\ damage = <<>> /\ reads = <<>> /\ wire = <<>>
    /\ segment = <<>> /\ writer = <<>> /\ results = <<>>
    /\ \E n \in 0..MaxJoin : \E m \in 0..MaxJoin :
       \E a \in JoinSources(n) : \E b \in JoinSources(m) :
           /\ subject = <<<<a, b>>>>
           /\ query = <<EventQuery_new(<<a, b>>, <<>>, <<>>)>>

SourcesFill ==
    /\ subject # <<>>
    /\ Len(reads) <= MaxJoin
    /\ LET r == fill(subject[1], env_mut(subject[1])) IN
       /\ subject' = <<r.srcs>>
       /\ reads' = Append(reads, [pre |-> subject[1], res |-> r.res,
                                  srcs |-> r.srcs, buffer |-> r.buffer])
    /\ UNCHANGED <<blocks, opened, last, track, closed, clean, reader, image, damage,
                   wire, segment, writer, query, results>>

JoinNext ==
    /\ query # <<>>
    /\ Len(results) <= 2 * MaxJoin
    /\ LET r == EventQuery_next(query[1]) IN
       /\ query' = <<r.query>>
       /\ results' = Append(results, r.item)
    /\ UNCHANGED <<codec, segment, writer>>

NextSources == SourcesFill \/ JoinNext

SpecSources == InitSources /\ [][NextSources]_vars

(***************************************************************************)
(* Aggregates.  An Agg is <<"Count", value>>, <<"Avg", count, acc, nan>>   *)
(* (acc a whole number, nan whether acc is NaN) or <<"Unique", value>>     *)
(* (value an Option).  An expression is <<"Field", name>>, which reads a   *)
(* field of the row bound by the first source, <<"App", func, args>> or    *)
(* <<"Record", fields>>, fields a sequence of [name, expr].                *)
(***************************************************************************)
Agg_avg == <<"Avg", 0, 0, FALSE>>

Agg_count == <<"Count", 0>>

Agg_unique == <<"Unique", <<>>>>

Number(n) == <<"Number", [neg |-> FALSE, abs |-> n]>>

\* Agg::fold, for the aggregates instantiate_aggregate creates
Agg_fold(agg, params) ==
    CASE agg[1] = "Avg" ->
             IF params # <<>> /\ params[1][1] = "Number"
             THEN <<"Avg", agg[2] + 1, agg[3] + params[1][2].abs, agg[4]>>
             ELSE <<"Avg", agg[2], agg[3], TRUE>>
      [] agg[1] = "Count" ->
             IF params # <<>>
             THEN IF params[1][1] = "Bool"
                  THEN IF params[1][2] THEN <<"Count", agg[2] + 1>> ELSE agg
                  ELSE agg
             ELSE <<"Count", agg[2] + 1>>
      [] agg[1] = "Unique" ->
             IF params = <<>> \/ agg[2] # <<>> THEN agg ELSE <<"Unique", <<params[1]>>>>

\* A bug Agg::complete could have: the average of no value is Null, as the
\* minimum and the maximum of no value are.
Agg_complete_mutant(agg) ==
    CASE agg[1] = "Avg" ->
             IF agg[4] THEN <<"Number", "NaN">>
             ELSE IF agg[2] = 0 THEN <<"Null">>
             ELSE Number(agg[3] \div agg[2])
      [] agg[1] = "Count" -> Number(agg[2])
      [] agg[1] = "Unique" -> IF agg[2] # <<>> THEN agg[2][1] ELSE <<"Null">>

\* Agg::complete; the rows are drawn so that acc / count is a whole number
Agg_complete(agg) ==
    CASE agg[1] = "Avg" ->
             IF agg[4] THEN <<"Number", "NaN">>
             ELSE IF agg[2] = 0 THEN Number(0)
             ELSE Number(agg[3] \div agg[2])
      [] agg[1] = "Count" -> Number(agg[2])
      [] agg[1] = "Unique" -> IF agg[2] # <<>> THEN agg[2][1] ELSE <<"Null">>

instantiate_aggregate(app) ==
    CASE app[2] = "count" -> Agg_count
      [] app[2] = "avg" -> Agg_avg
      [] app[2] = "unique" -> Agg_unique

FieldNames(fields) == {fields[i].name : i \in 1..Len(fields)}

FieldExpr(fields, name) == (CHOOSE i \in 1..Len(fields) : fields[i].name = name)

\* AggState::from: <<"Single", agg>> or <<"Record", aggs>>, aggs a map by field name
AggState_from(projection) ==
    IF projection[1] = "Record"
    THEN <<"Record",
           [name \in FieldNames(projection[2]) |->
               LET expr == projection[2][FieldExpr(projection[2], name)].expr IN
               IF expr[1] = "App" THEN <<"Single", instantiate_aggregate(expr)>>
               ELSE <<"Single", Agg_unique>>]>>
    ELSE <<"Single", instantiate_aggregate(projection)>>

\* AggState::complete
AggState_complete(state) ==
    IF state[1] = "Single" THEN Agg_complete(state[2])
    ELSE <<"Record", [name \in DOMAIN state[2] |-> Agg_complete(state[2][name][2])]>>

\* instantiate_ordered_aggregate: Option<AggOrdered>
instantiate_ordered_aggregate(order_by) ==
    IF order_by.expr[1] = "App"
    THEN <<[expr |-> order_by.expr, agg |-> <<"Single", instantiate_aggregate(order_by.expr)>>]>>
    ELSE <<>>

\* Interpreter::eval_expr of a field of the bound row
eval_expr(expr, env) == env[1][1][expr[2]]

eval_args(args, env) == [i \in 1..Len(args) |-> eval_expr(args[i], env)]

\* eval_agg_value: EvalResult<()> with the AggState after the call
RECURSIVE eval_agg_fields(_, _, _)
eval_agg_value(env, value, state) ==
    IF state[1] = "Single" /\ value[1] = "App"
    THEN [res |-> "Ok", state |-> <<"Single", Agg_fold(state[2], eval_args(value[3], env))>>]
    ELSE IF state[1] = "Single" /\ value[1] = "Field"
    THEN [res |-> "Ok", state |-> <<"Single", Agg_fold(state[2], <<eval_expr(value, env)>>)>>]
    ELSE IF state[1] = "Record" /\ value[1] = "Record"
    THEN eval_agg_fields(env, value[2], state)
    ELSE [res |-> "Err", state |-> state]

eval_agg_fields(env, props, state) ==
    IF props = <<>> THEN [res |-> "Ok", state |-> state]
    ELSE IF Head(props).name \notin DOMAIN state[2] THEN [res |-> "Err", state |-> state]
    ELSE LET r == eval_agg_value(env, Head(props).expr, state[2][Head(props).name]) IN
         IF r.res = "Err" THEN [res |-> "Err", state |-> state]
         ELSE eval_agg_fields(env, Tail(props),
                              <<"Record", [state[2] EXCEPT ![Head(props).name] = r.state]>>)

(***************************************************************************)
(* AggQuery.  Emit is <<"Single", state>> or <<"Grouped", ordered, aggs>>; *)
(* aggs, a HashMap, is the sequence of its entries [key, ordered, state]   *)
(* in the order they were inserted.  The order in which a HashMap iterates *)
(* is not fixed by its content (the hasher is seeded at random): every     *)
(* operator that iterates one takes the order as `iter`, a permutation of  *)
(* the positions.                                                          *)
(***************************************************************************)
\* the values of the GROUP BY expression: "a", "b" and "c"
GroupNames == {<<97>>, <<98>>, <<99>>}

\* the orders in which a map of at most that many entries can iterate
IterationOrders ==
    LET n == Cardinality(GroupNames) IN
    {p \in [1..n -> 1..n] : \A i, j \in 1..n : p[i] = p[j] => i = j}

\* HashMap::values, in the iteration order iter
HashMap_values(aggs, iter) ==
    LET Present(i) == i <= Len(aggs)
        order == SelectSeq(iter, Present)
    IN  [j \in 1..Len(aggs) |-> aggs[order[j]]]

\* f64::to_string of a whole number that is not negative
RECURSIVE Digits(_)
Digits(n) == IF n < 10 THEN <<48 + n>> ELSE Digits(n \div 10) \o <<48 + (n % 10)>>

\* the group key of AggQuery::next: the value as a String, or Err
group_key(value) ==
    CASE value[1] = "String" -> [res |-> "Ok", key |-> value[2]]
      [] value[1] = "Number" -> [res |-> "Ok", key |-> Digits(value[2].abs)]
      [] OTHER -> [res |-> "Err", key |-> <<>>]

AggQuery_new(srcs, q) ==
    [srcs |-> srcs,
     query |-> q,
     env |-> env_mut(srcs),
     emit |-> IF q.group_by # <<>>
              THEN <<"Grouped", IF q.order_by # <<>> THEN <<q.order_by[1].order>> ELSE <<>>, <<>>>>
              ELSE <<"Single", AggState_from(q.projection)>>,
     completed |-> FALSE,
     results |-> <<>>]

\* aggs.entry(group_key).or_insert_with(...): the position of the entry and the map
entry_or_insert(aggs, key, q) ==
    IF \E i \in 1..Len(aggs) : aggs[i].key = key
    THEN [at |-> CHOOSE i \in 1..Len(aggs) : aggs[i].key = key, aggs |-> aggs]
    ELSE [at |-> Len(aggs) + 1,
          aggs |-> Append(aggs,
                     [key |-> key,
                      ordered |-> IF q.order_by # <<>>
                                  THEN instantiate_ordered_aggregate(q.order_by[1])
                                  ELSE <<>>,
                      state |-> AggState_from(q.projection)])]

\* AggGroup::update_order_agg: EvalResult<()> with the group after the call
update_order_agg(group, env) ==
    IF group.ordered # <<>>
    THEN LET r == eval_agg_value(env, group.ordered[1].expr, group.ordered[1].agg) IN
         [res |-> r.res, group |-> [group EXCEPT !.ordered = <<[@[1] EXCEPT !.agg = r.state]>>]]
    ELSE [res |-> "Ok", group |-> group]

\* the key a group is inserted under in the orderer
order_key(group) ==
    IF group.ordered # <<>> THEN AggState_complete(group.ordered[1].agg) ELSE <<"Null">>

RECURSIVE insert_groups(_, _)
insert_groups(orderer, groups) ==
    IF groups = <<>> THEN orderer
    ELSE insert_groups(insert(orderer, order_key(Head(groups)), AggState_complete(Head(groups).state)),
                       Tail(groups))

\* while let Some(value) = orderer.next() { results.push(value) }
RECURSIVE drain(_)
drain(orderer) ==
    LET r == QueryOrderer_next(orderer) IN
    IF r.value = <<>> THEN <<>> ELSE <<r.value[1]>> \o drain(r.orderer)

\* the completion pass of AggQuery::next: Option<()> (None when
\* prepare_for_streaming returns None) with the results
complete_pass(emit, iter) ==
    IF emit[1] = "Single"
    THEN [res |-> "Some", results |-> <<AggState_complete(emit[2])>>]
    ELSE LET groups == HashMap_values(emit[3], iter) IN
         IF emit[2] # <<>>
         THEN LET p == prepare_for_streaming(insert_groups(QueryOrderer_new(emit[2][1]), groups)) IN
              IF p.res = "None" THEN [res |-> "None", results |-> <<>>]
              ELSE [res |-> "Some", results |-> drain(p.orderer)]
         ELSE [res |-> "Some",
               results |-> [j \in 1..Len(groups) |-> AggState_complete(groups[j].state)]]

\* AggQuery::next: Option<EvalResult<QueryValue>> with the query after the call
RECURSIVE AggQuery_next(_, _)
AggQuery_next(q, iter) ==
    IF q.completed
    THEN IF q.results # <<>>
         THEN Pull(Item("Ok", Head(q.results)), [q EXCEPT !.results = Tail(@)])
         ELSE Pull(<<>>, q)
    ELSE LET f == fill(q.srcs, env_mut(q.srcs))
             q1 == [q EXCEPT !.srcs = f.srcs, !.env = f.buffer]
         IN
         IF f.res = "None"
         THEN LET c == complete_pass(q1.emit, iter)
                  q2 == [q1 EXCEPT !.completed = TRUE]
              IN  IF c.res = "None" THEN Pull(<<>>, q2)
                  ELSE AggQuery_next([q2 EXCEPT !.results = c.results], iter)
         ELSE IF f.res = "Err" THEN Pull(Item("Err", "source"), q1)
         ELSE IF eval_predicate(q1.env) = "err" THEN Pull(Item("Err", "predicate"), q1)
         ELSE IF eval_predicate(q1.env) = "false" THEN AggQuery_next(q1, iter)
         ELSE IF q1.emit[1] = "Grouped" /\ q1.query.group_by # <<>>
         THEN LET k == group_key(eval_expr(q1.query.group_by[1], q1.env)) IN
              IF k.res = "Err" THEN Pull(Item("Err", "group"), q1)
              ELSE LET e == entry_or_insert(q1.emit[3], k.key, q1.query)
                       u == update_order_agg(e.aggs[e.at], q1.env)
                       r == eval_agg_value(q1.env, q1.query.projection, u.group.state)
                       q2 == [q1 EXCEPT !.emit[3] = [e.aggs EXCEPT ![e.at] = u.group]]
                       q3 == [q1 EXCEPT !.emit[3] =
                                 [e.aggs EXCEPT ![e.at] = [u.group EXCEPT !.state = r.state]]]
                   IN  IF u.res = "Err" THEN Pull(Item("Err", "order"), q2)
                       ELSE IF r.res = "Err" THEN Pull(Item("Err", "projection"), q3)
                       ELSE AggQuery_next(q3, iter)
         ELSE IF q1.emit[1] = "Single"
         THEN LET r == eval_agg_value(q1.env, q1.query.projection, q1.emit[2])
                  q2 == [q1 EXCEPT !.emit[2] = r.state]
              IN  IF r.res = "Err" THEN Pull(Item("Err", "projection"), q2)
                  ELSE AggQuery_next(q2, iter)
         ELSE Pull(Item("Err", "path"), q1)

(***************************************************************************)
(* An aggregate query over one source, pulled until after its results are  *)
(* exhausted.  `subject` keeps the rows the source started with and the    *)
(* query.                                                                  *)
(***************************************************************************)
\* the largest number of rows of the source of an aggregate query
MaxAggRows == 3

\* the rows: one that passes of every group, one that does not pass, and one
\* whose group is Null
AggRows ==
    {[pred |-> "true", g |-> <<"String", name>>, x |-> Number(2)] : name \in GroupNames}
    \cup {[pred |-> "false", g |-> <<"String", <<97>>>>, x |-> Number(2)],
          [pred |-> "true", g |-> <<"Null">>, x |-> Number(2)]}

AggSources(n) ==
    {[i \in 1..n |-> [res |-> "Ok", row |-> <<rows[i]>>]] : rows \in [1..n -> AggRows]}

count_app == <<"App", "count", <<>>>>

\* SELECT { a: avg(x), n: count(), u: unique(x) }
ProjectionSingle ==
    <<"Record", <<[name |-> "a", expr |-> <<"App", "avg", <<<<"Field", "x">>>>>>],
                  [name |-> "n", expr |-> count_app],
                  [name |-> "u", expr |-> <<"App", "unique", <<<<"Field", "x">>>>>>]>>>>

\* SELECT { a: avg(x), n: count(), u: g }
ProjectionGrouped ==
    <<"Record", <<[name |-> "a", expr |-> <<"App", "avg", <<<<"Field", "x">>>>>>],
                  [name |-> "n", expr |-> count_app],
                  [name |-> "u", expr |-> <<"Field", "g">>]>>>>

AggLimits == {<<>>, <<[kind |-> "Top", n |-> 1]>>, <<[kind |-> "Skip", n |-> 1]>>}

\* ORDER BY count() or ORDER BY g, ASC or DESC
OrderBys ==
    {<<>>} \cup {<<[expr |-> expr, order |-> order]>> :
                    expr \in {count_app, <<"Field", "g">>}, order \in {"Asc", "Desc"}}

\* no HAVING, or HAVING count() >= 2
Havings == {<<>>, <<[expr |-> count_app, min |-> 2]>>}

AggQueries ==
    [projection : {ProjectionSingle}, group_by : {<<>>}, having : {<<>>},
     order_by : {<<>>}, limit : AggLimits]
    \cup [projection : {ProjectionGrouped}, group_by : {<<<<"Field", "g">>>>}, having : Havings,
          order_by : OrderBys, limit : AggLimits]

InitAgg ==
    /\ blocks = BlocksMut_new(0, 0, 0, <<>>)
    /\ opened = <<>>
    /\ last = [op |-> "new", arg |-> 0, res |-> "Ok", pre |-> blocks, ob |-> <<>>]
    /\ track = NoTrack
    /\ closed = <<>>
    /\ clean = TRUE
    /\ reader = <<>> /\ image = <<>> /\ damage = <<>> /\ reads = <<>> /\ wire = <<>>
    /\ segment = <<>> /\ writer = <<>> /\ results = <<>>
    /\ \E n \in 0..MaxAggRows : \E src \in AggSources(n) : \E q \in AggQueries :
           /\ subject = <<[rows |-> src, query |-> q]>>
           /\ query = <<AggQuery_new(<<src>>, q)>>

AggQueryNext ==
    /\ query # <<>>
    /\ Len(results) <= Len(subject[1].rows) + 1
    /\ \E iter \in IterationOrders :
           LET r == AggQuery_next(query[1], iter) IN
           /\ query' = <<r.query>>
           /\ results' = Append(results, r.item)
    /\ UNCHANGED <<codec, segment, writer>>

NextAgg == AggQueryNext

SpecAgg == InitAgg /\ [][NextAgg]_vars

(***************************************************************************)
(* Two executions of one aggregate query over one dataset: `query` holds   *)
(* both, `results` the values of the first and `reads` those of the second.*)
(***************************************************************************)
\* the largest number of rows of the source of a query run twice
MaxRunRows == 2

\* the queries run twice: no HAVING and no limit
RunQueries == {q \in AggQueries : q.having = <<>> /\ q.limit = <<>>}

InitRuns ==
    /\ blocks = BlocksMut_new(0, 0, 0, <<>>)
    /\ opened = <<>>
    /\ last = [op |-> "new", arg |-> 0, res |-> "Ok", pre |-> blocks, ob |-> <<>>]
    /\ track = NoTrack
    /\ closed = <<>>
    /\ clean = TRUE
    /\ reader = <<>> /\ image = <<>> /\ damage = <<>> /\ reads = <<>> /\ wire = <<>>
    /\ segment = <<>> /\ writer = <<>> /\ results = <<>>
    /\ \E n \in 0..MaxRunRows : \E src \in AggSources(n) : \E q \in RunQueries :
           /\ subject = <<[rows |-> src, query |-> q]>>
           /\ query = <<AggQuery_new(<<src>>, q), AggQuery_new(<<src>>, q)>>

FirstRunNext ==
    /\ Len(query) = 2
    /\ Len(results) <= Len(subject[1].rows) + 1
    /\ \E iter \in IterationOrders :
           LET r == AggQuery_next(query[1], iter) IN
           /\ query' = <<r.query, query[2]>>
           /\ results' = Append(results, r.item)
    /\ UNCHANGED <<codec, segment, writer>>

SecondRunNext ==
    /\ Len(query) = 2
    /\ Len(reads) <= Len(subject[1].rows) + 1
    /\ \E iter \in IterationOrders :
           LET r == AggQuery_next(query[2], iter) IN
           /\ query' = <<query[1], r.query>>
           /\ reads' = Append(reads, r.item)
    /\ UNCHANGED <<blocks, opened, last, track, closed, clean, reader, image, damage,
                   subject, wire, segment, writer, results>>

NextRuns == FirstRunNext \/ SecondRunNext

SpecRuns == InitRuns /\ [][NextRuns]_vars

(***************************************************************************)
(* InMemDb.  A string is the sequence of its characters.  The subject tree *)
(* is a map from the path of a node (the sequence of the keys that lead to *)
(* it from the root, <<>> for the root) to its name and events; types is a *)
(* map from event type to indices.  `subject` holds the database and       *)
(* `reads` the subject each stored event was appended with.                *)
(***************************************************************************)
starts_with(str, ch) == str # <<>> /\ str[1] = ch

\* str::split('/'): the segments, at least one
RECURSIVE split_from(_, _)
split_from(str, current) ==
    IF str = <<>> THEN <<current>>
    ELSE IF Head(str) = "/" THEN <<current>> \o split_from(Tail(str), <<>>)
    ELSE split_from(Tail(str), Append(current, Head(str)))

split(str) == split_from(str, <<>>)

Subject_default == [name |-> <<>>, events |-> <<>>]

\* Subject::entries: the node whose events are returned, and the tree with
\* the nodes created on the way
RECURSIVE entries(_, _, _)
entries(tree, node, path) ==
    LET name == IF path = <<>> THEN <<>> ELSE Head(path) IN
    IF name # <<>>
    THEN LET child == Append(node, name)
             made == [name |-> IF tree[node].name = <<>> THEN name
                               ELSE tree[node].name \o <<"/">> \o name,
                      events |-> <<>>]
             grown == IF child \in DOMAIN tree THEN tree
                      ELSE [p \in DOMAIN tree \cup {child} |->
                               IF p = child THEN made ELSE tree[p]]
         IN  entries(grown, child, Tail(path))
    ELSE [tree |-> tree, node |-> node]

InMemDb_default ==
    [types |-> <<>>, subjects |-> [p \in {<<>>} |-> Subject_default], events |-> <<>>]

\* A bug the loop could have: next_id advanced before the type index takes it.
RECURSIVE append_events_mutant(_, _, _)
append_events_mutant(db, node, events) ==
    IF events = <<>> THEN db
    ELSE LET next_id == Len(db.events)
             event == Head(events)
             types == IF event.event_type \in DOMAIN db.types
                      THEN [db.types EXCEPT ![event.event_type] = Append(@, next_id + 1)]
                      ELSE [t \in DOMAIN db.types \cup {event.event_type} |->
                               IF t = event.event_type THEN <<next_id + 1>> ELSE db.types[t]]
         IN  append_events_mutant(
                 [types |-> types,
                  subjects |-> [db.subjects EXCEPT ![node].events = Append(@, next_id)],
                  events |-> Append(db.events, event)],
                 node, Tail(events))

\* the for loop of InMemDb::append
RECURSIVE append_events(_, _, _)
append_events(db, node, events) ==
    IF events = <<>> THEN db
    ELSE LET next_id == Len(db.events)
             event == Head(events)
             types == IF event.event_type \in DOMAIN db.types
                      THEN [db.types EXCEPT ![event.event_type] = Append(@, next_id)]
                      ELSE [t \in DOMAIN db.types \cup {event.event_type} |->
                               IF t = event.event_type THEN <<next_id>> ELSE db.types[t]]
         IN  append_events([types |-> types,
                            subjects |-> [db.subjects EXCEPT ![node].events = Append(@, next_id)],
                            events |-> Append(db.events, event)],
                           node, Tail(events))

\* A bug append could have: the subject checked after the events are stored.
InMemDb_append_mutant(db, subject_, events) ==
    LET e == entries(db.subjects, <<>>, split(subject_))
        stored == append_events([db EXCEPT !.subjects = e.tree], e.node, events)
    IN  IF starts_with(subject_, "/") THEN [res |-> "IllegalSubject", db |-> stored]
        ELSE [res |-> "Ok", db |-> stored]

\* InMemDb::append: Result<()> with the database after the call
InMemDb_append(db, subject_, events) ==
    IF starts_with(subject_, "/") THEN [res |-> "IllegalSubject", db |-> db]
    ELSE LET e == entries(db.subjects, <<>>, split(subject_)) IN
         [res |-> "Ok",
          db |-> append_events([db EXCEPT !.subjects = e.tree], e.node, events)]

\* IndexedEvents: the events of the indices, up to the first index that
\* events.get does not find (next returns None there)
RECURSIVE IndexedEvents(_, _)
IndexedEvents(indexes, events) ==
    IF indexes = <<>> THEN <<>>
    ELSE LET idx == Head(indexes) IN
         IF idx < Len(events)
         THEN <<events[idx + 1]>> \o IndexedEvents(Tail(indexes), events)
         ELSE <<>>

\* InMemDb::iter_types, collected
iter_types(db, tpe) ==
    IndexedEvents(IF tpe \in DOMAIN db.types THEN db.types[tpe] ELSE <<>>, db.events)

\* the largest number of calls of append
MaxAppends == 2

\* the subjects appended with: "", "a", "b", "a/b", "/a", "a/" and "a//b"
SubjectStrings ==
    {<<>>, <<"a">>, <<"b">>, <<"a", "/", "b">>, <<"/", "a">>, <<"a", "/">>,
     <<"a", "/", "/", "b">>}

\* the events appended in one call: one or two, by their types and ids
EventLists ==
    {<<[event_type |-> "x", id |-> 1]>>,
     <<[event_type |-> "x", id |-> 1], [event_type |-> "y", id |-> 2]>>,
     <<[event_type |-> "y", id |-> 2], [event_type |-> "x", id |-> 3]>>}

InitDb ==
    /\ blocks = BlocksMut_new(0, 0, 0, <<>>)
    /\ opened = <<>>
    /\ last = [op |-> "new", arg |-> 0, res |-> "Ok", pre |-> blocks, ob |-> <<>>,
               events |-> <<>>]
    /\ track = NoTrack
    /\ closed = <<>>
    /\ clean = TRUE
    /\ reader = <<>> /\ image = <<>> /\ damage = <<>> /\ reads = <<>> /\ wire = <<>>
    /\ segment = <<>> /\ writer = <<>> /\ query = <<>> /\ results = <<>>
    /\ subject = <<InMemDb_default>>

AppendEvents(subject_, events) ==
    /\ subject # <<>>
    /\ Len(results) < MaxAppends
    /\ LET r == InMemDb_append(subject[1], subject_, events) IN
       /\ subject' = <<r.db>>
       /\ last' = [op |-> "append", arg |-> subject_, res |-> r.res,
                   pre |-> subject[1], ob |-> <<>>, events |-> events]
       /\ results' = Append(results, r.res)
       /\ reads' = IF r.res = "Ok"
                   THEN reads \o [i \in 1..Len(events) |-> subject_]
                   ELSE reads
    /\ UNCHANGED <<blocks, opened, track, closed, clean, reader, image, damage, wire,
                   segment, writer, query>>

NextDb == \E subject_ \in SubjectStrings : \E events \in EventLists : AppendEvents(subject_, events)

SpecDb == InitDb /\ [][NextDb]_vars

(***************************************************************************)
(* AggKind and EvalAgg.  A HashMap<App, Agg> is the sequence of its        *)
(* entries [app, agg]; it iterates in an order that the caller cannot      *)
(* choose, given as a permutation.  An AggKind is                          *)
(* [kind |-> "Regular", aggs] or [kind |-> "Grouped", base, value, aggs]   *)
(* with aggs a map from group key to such a sequence.                      *)
(***************************************************************************)
HasApp(aggs, app) == \E i \in 1..Len(aggs) : aggs[i].app = app

\* AggKind::load_expr
RECURSIVE load_expr(_, _)
RECURSIVE load_fields(_, _)
load_fields(aggs, fields) ==
    IF fields = <<>> THEN aggs
    ELSE load_fields(load_expr(aggs, Head(fields).expr), Tail(fields))

load_expr(aggs, expr) ==
    CASE expr[1] = "App" ->
             IF HasApp(aggs, expr) THEN aggs
             ELSE Append(aggs, [app |-> expr, agg |-> instantiate_aggregate(expr)])
      [] expr[1] = "Record" -> load_fields(aggs, expr[2])
      [] OTHER -> aggs

\* AggKind::load
AggKind_load(q) ==
    LET projected == load_expr(<<>>, q.projection) IN
    IF q.group_by # <<>>
    THEN LET grouped == load_expr(projected, q.group_by[1].expr)
             having == IF q.group_by[1].predicate # <<>>
                       THEN load_expr(grouped, q.group_by[1].predicate[1])
                       ELSE grouped
             ordered == IF q.order_by # <<>> THEN load_expr(having, q.order_by[1].expr)
                        ELSE having
         IN  [kind |-> "Grouped", base |-> ordered, value |-> q.group_by[1].expr,
              aggs |-> <<>>]
    ELSE [kind |-> "Regular", aggs |-> projected]

\* the for loop of EvalAgg::fold_aggs from the j-th entry visited on, and the
\* buffer.clear() behind it
RECURSIVE fold_aggs_from(_, _, _, _, _)
fold_aggs_from(env, aggs, order, j, buffer) ==
    IF j > Len(order) THEN [res |-> "Ok", aggs |-> aggs, buffer |-> <<>>]
    ELSE LET pushed == buffer \o eval_args(aggs[order[j]].app[3], env) IN
         fold_aggs_from(env, [aggs EXCEPT ![order[j]].agg = Agg_fold(@, pushed)],
                        order, j + 1, pushed)

\* EvalAgg::fold_aggs, with aggs.iter_mut() visiting in the order iter
fold_aggs(env, aggs, iter, buffer) ==
    LET Present(i) == i <= Len(aggs) IN
    fold_aggs_from(env, aggs, SelectSeq(iter, Present), 1, buffer)

\* EvalAgg::fold: the EvalAgg and the AggKind after the call
EvalAgg_fold(eval, env, kind, iter) ==
    IF kind.kind = "Regular"
    THEN LET r == fold_aggs(env, kind.aggs, iter, eval.buffer) IN
         [res |-> r.res, eval |-> [buffer |-> r.buffer],
          kind |-> [kind EXCEPT !.aggs = r.aggs]]
    ELSE LET key == eval_expr(kind.value, env)
             found == IF key \in DOMAIN kind.aggs THEN kind.aggs[key] ELSE kind.base
             r == fold_aggs(env, found, iter, eval.buffer)
         IN  [res |-> r.res, eval |-> [buffer |-> r.buffer],
              kind |-> [kind EXCEPT !.aggs = [k \in DOMAIN kind.aggs \cup {key} |->
                                                 IF k = key THEN r.aggs ELSE kind.aggs[k]]]]

\* the largest number of rows folded
MaxFoldRows == 2

\* the rows folded: two numbers, a Bool and the group
FoldRows ==
    {[x |-> Number(2), y |-> Number(4), b |-> <<"Bool", flag>>, g |-> <<"String", name>>] :
        flag \in BOOLEAN, name \in {<<97>>, <<98>>}}

\* SELECT { .. } with two or three of count(), count(b), avg(x) and avg(y),
\* grouped by g or not
FoldQueries ==
    LET count == <<"App", "count", <<>>>>
        count_b == <<"App", "count", << <<"Field", "b">> >> >>
        avg_x == <<"App", "avg", << <<"Field", "x">> >> >>
        avg_y == <<"App", "avg", << <<"Field", "y">> >> >>
        Rec(p, q) == <<"Record", <<[name |-> "p", expr |-> p], [name |-> "q", expr |-> q]>>>>
    IN  {[projection |-> projection, group_by |-> group_by, order_by |-> <<>>] :
            projection \in {count, Rec(count, avg_x), Rec(avg_x, avg_y), Rec(count_b, count),
                            Rec(avg_x, avg_x)},
            group_by \in {<<>>, <<[expr |-> <<"Field", "g">>, predicate |-> <<>>]>>}}

InitFold ==
    /\ blocks = BlocksMut_new(0, 0, 0, <<>>)
    /\ opened = <<>>
    /\ last = [op |-> "new", arg |-> 0, res |-> "Ok", pre |-> blocks, ob |-> <<>>]
    /\ track = NoTrack
    /\ closed = <<>>
    /\ clean = TRUE
    /\ reader = <<>> /\ image = <<>> /\ damage = <<>> /\ reads = <<>> /\ wire = <<>>
    /\ segment = <<>> /\ writer = <<>> /\ results = <<>>
    /\ \E q \in FoldQueries :
           /\ subject = <<q>>
           /\ query = <<[eval |-> [buffer |-> <<>>], kind |-> AggKind_load(q)]>>

\* one row is bound and folded; `last` keeps the row, the order of the visit
\* and the AggKind the call started from
FoldRow(row) ==
    /\ query # <<>>
    /\ Len(results) < MaxFoldRows
    /\ \E iter \in IterationOrders :
           LET r == EvalAgg_fold(query[1].eval, << <<row>> >>, query[1].kind, iter) IN
           /\ query' = <<[eval |-> r.eval, kind |-> r.kind]>>
           /\ results' = Append(results, r.res)
           /\ last' = [op |-> "fold", arg |-> row, res |-> r.res, pre |-> query[1].kind,
                       ob |-> iter]
    /\ UNCHANGED <<blocks, opened, track, closed, clean, reader, image, damage, reads,
                   subject, wire, segment, writer>>

NextFold == \E row \in FoldRows : FoldRow(row)

SpecFold == InitFold /\ [][NextFold]_vars

(***************************************************************************)
(* Interpreter::eval_binary for the operators = and != (Operator::Eq,      *)
(* Operator::Neq).  A Record is <<"Record", fields>>: the pairs            *)
(* <<key, value>> of its BTreeMap in the order of iteration, that is in    *)
(* increasing key order.  An EvalResult is [res, value].                   *)
(***************************************************************************)
EvalOk(value) == [res |-> "Ok", value |-> value]

EvalErr == [res |-> "Err", value |-> <<>>]

Bool(b) == <<"Bool", b>>

\* QueryValue::as_bool
as_bool(v) == IF v[1] = "Bool" THEN EvalOk(v[2]) ELSE EvalErr

\* f64 ==: the two zeroes are equal
f64_eq(x, y) == x.abs = y.abs /\ (x.abs = 0 \/ x.neg = y.neg)

RECURSIVE eval_binary(_, _, _)
RECURSIVE zip_fields(_, _, _)

\* the loop over a.iter().zip(b.iter()) of the (Record, Record) arm, from pair i
zip_fields(a, b, i) ==
    IF i > Len(a) THEN EvalOk(Bool(TRUE))
    ELSE IF a[i][1] # b[i][1] THEN EvalOk(Bool(FALSE))
    ELSE LET eq == eval_binary("Eq", a[i][2], b[i][2]) IN
         IF eq.res # "Ok" THEN EvalErr
         ELSE LET same == as_bool(eq.value) IN
              IF same.res # "Ok" THEN EvalErr
              ELSE IF same.value THEN EvalOk(Bool(FALSE))
              ELSE zip_fields(a, b, i + 1)

eval_binary(op, a, b) ==
    CASE a[1] = "Null" /\ b[1] = "Null" -> EvalOk(<<"Null">>)
      [] a[1] = "String" /\ b[1] = "String" ->
             IF op = "Eq" THEN EvalOk(Bool(a[2] = b[2])) ELSE EvalOk(Bool(a[2] # b[2]))
      [] a[1] = "Number" /\ b[1] = "Number" ->
             IF op = "Eq" THEN EvalOk(Bool(f64_eq(a[2], b[2])))
             ELSE EvalOk(Bool(~f64_eq(a[2], b[2])))
      [] a[1] = "Bool" /\ b[1] = "Bool" ->
             IF op = "Eq" THEN EvalOk(Bool(a[2] = b[2])) ELSE EvalOk(Bool(a[2] # b[2]))
      [] a[1] = "Record" /\ b[1] = "Record" ->
             IF op = "Eq"
             THEN IF Len(a[2]) # Len(b[2]) THEN EvalOk(Bool(FALSE))
                  ELSE zip_fields(a[2], b[2], 1)
             ELSE LET eq == eval_binary("Eq", a, b) IN
                  IF eq.res # "Ok" THEN EvalErr
                  ELSE LET same == as_bool(eq.value) IN
                       IF same.res # "Ok" THEN EvalErr ELSE EvalOk(Bool(~same.value))
      [] OTHER -> EvalErr

\* the values of a field: scalars and records of one field
FieldValues ==
    {<<"Null">>, <<"String", <<97>>>>, <<"String", <<98>>>>,
     <<"Number", [neg |-> FALSE, abs |-> 0]>>, <<"Number", [neg |-> TRUE, abs |-> 0]>>,
     Bool(TRUE),
     <<"Record", << <<"k", <<"String", <<97>>>> >> >> >>,
     <<"Record", << <<"k", <<"String", <<98>>>> >> >> >>}

\* the records compared: no field, the field k, the field l, or both
RecordValues ==
    {<<"Record", <<>>>>}
    \cup {<<"Record", << <<key, v>> >> >> : key \in {"k", "l"}, v \in FieldValues}
    \cup {<<"Record", << <<"k", v>>, <<"l", w>> >> >> : v \in FieldValues, w \in FieldValues}

InitEq ==
    /\ blocks = BlocksMut_new(0, 0, 0, <<>>)
    /\ opened = <<>>
    /\ last = [op |-> "new", arg |-> 0, res |-> "Ok", pre |-> blocks, ob |-> <<>>]
    /\ track = NoTrack
    /\ closed = <<>>
    /\ clean = TRUE
    /\ reader = <<>> /\ image = <<>> /\ damage = <<>> /\ reads = <<>> /\ wire = <<>>
    /\ Idle
    /\ \E a \in RecordValues : \E b \in RecordValues : subject = <<[a |-> a, b |-> b]>>

EvalBinary(op) ==
    /\ last.op = "new"
    /\ LET r == eval_binary(op, subject[1].a, subject[1].b) IN
       /\ results' = <<r>>
       /\ last' = Call("eval_binary", op, r.res)
    /\ UNCHANGED <<blocks, opened, track, closed, clean, reader, image, damage, reads,
                   subject, wire, segment, writer, query>>

NextEq == \E op \in {"Eq", "Neq"} : EvalBinary(op)

SpecEq == InitEq /\ [][NextEq]_vars

(***************************************************************************)
(* Properties of the writer (specification Spec).                          *)
(***************************************************************************)
PutOps == {"put_u8", "put_u16_le", "put_u32_le", "put_u64_le", "put_bytes", "zeroes"}

\* the bytes of the opened block that were in the buffer when the last call began
HeldBefore == Len(last.pre.buf) - last.ob[1].buf_start_offset

\* C1: every block whose finalize returned Ok occupies exactly 4 + need + 4 bytes of
\* the buffer, and its u32 LE prefix and its u32 LE suffix both equal need, whatever
\* puts (failed ones included) were made on it.
C1_ClosedBlockFraming ==
    \A i \in 1..Len(closed) :
        LET c == closed[i] IN
        /\ c.end - c.start = 4 + c.need + 4
        /\ FromLE(SubSeq(blocks.buf, c.start + 1, c.start + 4)) = c.need
        /\ FromLE(SubSeq(blocks.buf, c.end - 3, c.end)) = c.need

\* C3: open(need) succeeds iff available_space() >= need + 8, where available_space()
\* is max(0, limit - (offset + buffer length)) and never negative; a failed open is
\* OutOfSpace and writes nothing.
C3_OpenIffSpace ==
    LET Space(b) == IF b.limit - (b.offset + Len(b.buf)) > 0
                    THEN b.limit - (b.offset + Len(b.buf)) ELSE 0
    IN  /\ available_space(blocks) = Space(blocks)
        /\ available_space(blocks) >= 0
        /\ last.op = "open" =>
               /\ (last.res = "Ok") <=> (Space(last.pre) >= last.arg + 8)
               /\ last.res # "Ok" =>
                      /\ last.res = "OutOfSpace"
                      /\ blocks = last.pre
                      /\ opened = <<>>

\* C3's case: an open refused for one byte, after a block was written.
C3_Witness ==
    /\ last.op = "open"
    /\ last.res = "OutOfSpace"
    /\ Len(closed) > 0
    /\ available_space(last.pre) = last.arg + 7

\* C4: once finalize has returned Ok, available_space() is exactly need + 8 lower
\* than it was just before the block's open, whatever puts were made in between.
C4_SpaceAccounting ==
    \A i \in 1..Len(closed) :
        closed[i].space_after = closed[i].space_before - (closed[i].need + 8)

\* C5: a put that would make the bytes written to the block exceed need returns
\* WroteTooMuch and leaves the buffer as it was.
C5_TooMuchWritesNothing ==
    (last.op \in PutOps /\ HeldBefore + PutSize(<<last.op, last.arg>>) > last.ob[1].need)
        => /\ last.res = "WroteTooMuch"
           /\ blocks.buf = last.pre.buf

\* C5's case: a put refused on a block that already holds bytes.
C5_Witness ==
    /\ last.op \in PutOps
    /\ last.res = "WroteTooMuch"
    /\ HeldBefore > 0
    /\ HeldBefore < last.ob[1].need

\* C6: finalize on a block into which fewer than need bytes have been written returns
\* WroteTooLittle, writes no suffix and records no midpoint.
C6_TooLittleRejected ==
    (last.op = "finalize" /\ HeldBefore < last.ob[1].need)
        => /\ last.res = "WroteTooLittle"
           /\ blocks = last.pre

(***************************************************************************)
(* Properties of the framing (specification SpecFrame).                    *)
(***************************************************************************)
RECURSIVE SizeBefore(_)
SizeBefore(i) == IF i = 1 THEN 0 ELSE SizeBefore(i - 1) + Len(closed[i - 1].payload) + 8

\* C2: blocks written by open(need), successful puts of exactly need bytes and
\* finalize are read back by next_block in write order, each with its payload and the
\* absolute offset of its start, and then next_block returns Ok(None).
C2_ReadBack ==
    (reader # <<>> /\ damage = <<>>) =>
        \A i \in 1..Len(reads) :
            IF i <= Len(closed)
            THEN reads[i] = [res |-> "Some",
                             block |-> <<[offset |-> blocks.offset + SizeBefore(i),
                                          read |-> 0,
                                          data |-> closed[i].payload]>>]
            ELSE reads[i] = [res |-> "None", block |-> <<>>]

\* C2's case: two different blocks written at an offset, read to the end.
C2_Witness ==
    /\ damage = <<>>
    /\ blocks.offset > 0
    /\ Len(closed) >= 2
    /\ closed[1].payload # closed[2].payload
    /\ Len(reads) = Len(closed) + 1
    /\ reads[Len(reads)].res = "None"

\* C10: with the prefix or the suffix length field of a block changed to another
\* value, next_block fails with InvalidBlockFormat when it reaches that block.
C10_DamagedLengthRejected ==
    (damage # <<>> /\ Len(reads) >= damage[1].block)
        => reads[damage[1].block].res = "InvalidBlockFormat"

\* C10 as amended: a changed suffix is always rejected; a changed prefix p is rejected
\* unless at least p + 4 bytes follow it and the four bytes at distance p decode to
\* p, and then next_block returns those p bytes as a block.
C10_DamagedLength ==
    (damage # <<>> /\ Len(reads) >= damage[1].block) =>
        LET d == damage[1]
            c == closed[d.block]
            got == reads[d.block]
            rest == Drop(image, c.start + 4)
            passes == /\ d.field = "prefix"
                      /\ Len(rest) >= d.value + 4
                      /\ FromLE(SubSeq(rest, d.value + 1, d.value + 4)) = d.value
        IN  IF passes
            THEN got = [res |-> "Some",
                        block |-> <<[offset |-> blocks.offset + c.start,
                                     read |-> 0,
                                     data |-> Take(rest, d.value)]>>]
            ELSE got = [res |-> "InvalidBlockFormat", block |-> <<>>]

\* C10's case: the suffix of the second block was changed and the reader reached it.
C10_Witness ==
    /\ damage # <<>>
    /\ damage[1].field = "suffix"
    /\ damage[1].block = 2
    /\ Len(reads) >= 2
    /\ reads[2].res = "InvalidBlockFormat"

(***************************************************************************)
(* Properties of the record codec (specification SpecRecord).              *)
(***************************************************************************)
\* the record was written, carried unchanged and read
ReadIntact == Len(closed) = 1 /\ reader # <<>> /\ damage = <<>> /\ Len(reads) >= 1

\* the record was written, carried with one payload byte changed and read
ReadFlipped == Len(closed) = 1 /\ reader # <<>> /\ damage # <<>> /\ Len(reads) >= 1

C9_FlipIsChecksumMismatch ==
    ReadFlipped => reads[1].res = "ChecksumMismatch"

(***************************************************************************)
(* Properties of the footer codec (specification SpecFooter).              *)
(***************************************************************************)
\* C8: try_deserialize_from applied to the 128 bytes of f.serialize_into returns a
\* footer equal to f, for every f, sealed or not.
C8_FooterRoundTrip ==
    (wire # <<>> /\ Len(reads) = 1) => reads[1] = Parsed("Ok", subject)

\* C8 as amended: serialize_into produces 128 bytes; a sealed footer comes back equal
\* to itself, an unsealed one with its first_lsn and with last_lsn and checksum 0.
C8_FooterRoundTripSealed ==
    /\ wire # <<>> => Len(wire) = 128
    /\ (wire # <<>> /\ Len(reads) = 1) =>
           LET f == subject[1] IN
           reads[1] = Parsed("Ok", <<IF f.sealed THEN f
                                     ELSE [f EXCEPT !.last_lsn = <<0, 0, 0, 0>>,
                                                    !.checksum = <<0, 0>>]>>)

\* C8's case: a sealed footer with the largest lsns and checksum was read back.
C8_Witness ==
    /\ Len(reads) = 1
    /\ subject[1].sealed
    /\ subject[1].last_lsn = <<65535, 65535, 65535, 65535>>
    /\ subject[1].checksum = <<65535, 65535>>
    /\ reads[1] = Parsed("Ok", subject)

(***************************************************************************)
(* Properties of the record writer and the midpoints (specification        *)
(* SpecWal).                                                               *)
(***************************************************************************)
\* the BlocksMut the records went to, held by the writer or handed back by it
Written == IF writer # <<>> THEN writer[1].blocks ELSE blocks

\* C11: after any sequence of finalized blocks, two consecutive midpoints are more
\* than limit/10 bytes apart.
C11_MidpointsApart ==
    \A i \in 1..(Len(Written.midpoints) - 1) :
        Written.midpoints[i + 1] - Written.midpoints[i] > Written.limit \div 10

\* C12: for every midpoint m of the writer, at(m) on a fresh cursor over the written
\* buffer followed by next_block returns a block whose offset is m and whose payload
\* deserializes to the record written in the block that starts at m.
C12_ReadAtMidpoint ==
    \A i \in 1..Len(reads) :
        /\ reads[i].midpoint = blocks.midpoints[i]
        /\ reads[i].at = "Ok"
        /\ reads[i].block # <<>>
        /\ reads[i].block[1].offset = reads[i].midpoint
        /\ \E k \in 1..Len(closed) :
               /\ closed[k].start = reads[i].midpoint
               /\ reads[i].parsed = Parsed("Ok", <<closed[k].record>>)

\* C12's case: a buffer that starts at a non-zero offset holds several midpoints and
\* the block at the second, which is not the first block, was read.
C12_Witness ==
    /\ reader # <<>>
    /\ blocks.offset > 0
    /\ Len(reads) >= 2
    /\ reads[2].midpoint > blocks.offset
    /\ reads[2].parsed.res = "Ok"
    /\ reads[2].parsed.record[1].data # <<>>

\* C14: record_writer returns a writer iff the segment is unsealed; a sealed segment
\* never has a writer and no record is appended to it.
C14_WriterIffUnsealed ==
    /\ last.op = "record_writer" => (last.res = "Some" <=> ~is_sealed(segment[1]))
    /\ writer # <<>> => ~is_sealed(segment[1])
    /\ is_sealed(segment[1]) => closed = <<>> /\ Written.buf = <<>>

\* C14's case: record_writer was called on a sealed segment and returned None.
C14_Witness ==
    /\ is_sealed(segment[1])
    /\ last.op = "record_writer"
    /\ last.res = "None"
    /\ writer = <<>>

\* C15: an append that fails with OutOfSpace leaves the buffer, the midpoints and
\* cached_last_lsn as they were; cached_last_lsn is the lsn of the most recent
\* append that returned Ok, None when there is none.
C15_FailedAppendChangesNothing ==
    /\ (last.op = "append" /\ last.res = "OutOfSpace") => writer[1] = last.pre
    /\ writer # <<>> =>
           writer[1].cached_last_lsn =
               IF closed = <<>> THEN <<>> ELSE <<closed[Len(closed)].record.lsn>>

\* C15's case: after appends that returned Ok, an append of a record with another
\* lsn failed with OutOfSpace.
C15_Witness ==
    /\ last.op = "append"
    /\ last.res = "OutOfSpace"
    /\ closed # <<>>
    /\ last.pre.blocks.midpoints # <<>>
    /\ last.arg.lsn # closed[Len(closed)].record.lsn
    /\ writer[1].cached_last_lsn = <<closed[Len(closed)].record.lsn>>

(***************************************************************************)
(* Properties of the midpoint table (specification SpecMidpoints).         *)
(***************************************************************************)
\* C13: for a table sorted by lsn and any target, offset_for_lsn returns the offset
\* of the midpoint with the greatest lsn <= target whenever there is one, and never
\* indexes outside the table.
C13_NearestMidpointBelow ==
    Len(reads) = 1 =>
        LET inner == subject[1].inner
            lns == subject[1].lns
            below == {i \in 1..Len(inner) : inner[i].lsn <= lns}
        IN  /\ reads[1].res = "Ok"
            /\ below # {} =>
                   reads[1].value =
                       inner[CHOOSE i \in below : \A j \in below : inner[j].lsn <= inner[i].lsn].offset

(***************************************************************************)
(* Properties of the scalar query (specification SpecQuery).               *)
(***************************************************************************)
\* every row of the source evaluates without error
NoRowFails(src) ==
    \A i \in 1..Len(src) :
        /\ src[i].res = "Ok"
        /\ src[i].row[1].pred # "err"
        /\ src[i].row[1].proj = "ok"
        /\ src[i].row[1].key[1] # "Err"

Passes(item) == item.row[1].pred = "true"

\* the rows of the source that pass the predicate
Passing(src) == SelectSeq(src, Passes)

Min(a, b) == IF a < b THEN a ELSE b

HasLimit(kind) == query[1].limit # <<>> /\ query[1].limit[1].kind = kind

\* C16: with TOP(n), over rows that all evaluate without error, the first
\* min(n, total) calls each emit a value and the call after them returns None,
\* with or without ORDER BY
C16_TopEmitsMin ==
    (query # <<>> /\ HasLimit("Top") /\ NoRowFails(subject[1])) =>
        LET m == Min(query[1].limit[1].n, Len(Passing(subject[1]))) IN
        /\ \A i \in 1..Min(m, Len(results)) : results[i] # <<>> /\ results[i][1].res = "Ok"
        /\ Len(results) > m => results[m + 1] = <<>>

\* TOP(2) over three passing rows, sorted: two values, then None
C16_Witness ==
    /\ query # <<>> /\ HasLimit("Top") /\ NoRowFails(subject[1])
    /\ query[1].order_by # <<>>
    /\ query[1].limit[1].n = 2
    /\ Len(Passing(subject[1])) = 3
    /\ Len(results) = 3 /\ results[2] # <<>> /\ results[3] = <<>>

\* the ORDER BY key of the row whose projection is v
KeyOf(v) == subject[1][v].row[1].key

\* the projections of the passing rows, in the order of the source
PassingValues == [j \in 1..Len(Passing(subject[1])) |-> Passing(subject[1])[j].row[1].value]

\* v placed after every value of a sorted sequence whose key is not greater
RECURSIVE Place(_, _)
Place(sorted, v) ==
    IF sorted = <<>> THEN <<v>>
    ELSE IF cmp(KeyOf(v), KeyOf(Head(sorted))) = "Less" THEN <<v>> \o sorted
    ELSE <<Head(sorted)>> \o Place(Tail(sorted), v)

\* the stable ascending sort of a sequence of projections by their keys
RECURSIVE SortAsc(_)
SortAsc(values) ==
    IF values = <<>> THEN <<>>
    ELSE Place(SortAsc(SubSeq(values, 1, Len(values) - 1)), values[Len(values)])

\* what the query emits when it has no TOP and no SKIP
Unlimited ==
    IF query[1].order_by = <<>> THEN PassingValues
    ELSE IF query[1].order_by[1] = "Asc" THEN SortAsc(PassingValues)
    ELSE [j \in 1..Len(PassingValues) |->
             SortAsc(PassingValues)[Len(PassingValues) + 1 - j]]

Max(a, b) == IF a > b THEN a ELSE b

\* C17: with SKIP(k), over rows that all evaluate without error, the calls
\* emit the values the query would emit without SKIP from the k+1-th on, in
\* the same order, and then None: max(0, total - k) values, with or without
\* ORDER BY
C17_SkipDropsFirst ==
    (query # <<>> /\ HasLimit("Skip") /\ NoRowFails(subject[1])) =>
        LET k == query[1].limit[1].n
            m == Max(0, Len(Unlimited) - k)
        IN  /\ \A i \in 1..Min(m, Len(results)) :
                   results[i] = <<[res |-> "Ok", value |-> Unlimited[k + i]]>>
            /\ Len(results) > m => results[m + 1] = <<>>

\* SKIP(1) over three passing rows that ORDER BY rearranges: two values, then None
C17_Witness ==
    /\ query # <<>> /\ HasLimit("Skip") /\ NoRowFails(subject[1])
    /\ query[1].limit[1].n = 1
    /\ Len(Unlimited) = 3 /\ Unlimited # PassingValues
    /\ Len(results) = 3 /\ results[2] # <<>> /\ results[3] = <<>>

\* the i-th call emitted a value
Emitted(i) == results[i] # <<>> /\ results[i][1].res = "Ok"

\* C18: with ORDER BY, of two emitted values the later one never has the
\* smaller key when the order is ASC, and never the greater key when it is
\* DESC, whatever the rows are
C18_OutputSortedByKey ==
    (query # <<>> /\ query[1].order_by # <<>>) =>
        \A i \in 1..Len(results) : \A j \in (i + 1)..Len(results) :
            (Emitted(i) /\ Emitted(j)) =>
                cmp(KeyOf(results[i][1].value), KeyOf(results[j][1].value))
                    # (IF query[1].order_by[1] = "Asc" THEN "Greater" ELSE "Less")

\* DESC over three rows given in ascending key order: all three emitted
C18_Witness ==
    /\ query # <<>> /\ query[1].order_by = <<"Desc">>
    /\ query[1].limit = <<>>
    /\ Len(subject[1]) = 3 /\ NoRowFails(subject[1])
    /\ Len(PassingValues) = 3
    /\ cmp(KeyOf(1), KeyOf(2)) = "Less" /\ cmp(KeyOf(2), KeyOf(3)) = "Less"
    /\ Len(results) = 3 /\ \A i \in 1..3 : Emitted(i)

\* C19: of two values inserted under equal keys, the one inserted first is
\* emitted first when the order is ASC and last when it is DESC (the
\* projection of a row is its position in the source, so values are inserted
\* in increasing order)
C19_EqualKeysKeepInsertionOrder ==
    (query # <<>> /\ query[1].order_by # <<>>) =>
        \A i \in 1..Len(results) : \A j \in (i + 1)..Len(results) :
            (/\ Emitted(i) /\ Emitted(j)
             /\ cmp(KeyOf(results[i][1].value), KeyOf(results[j][1].value)) = "Equal") =>
                IF query[1].order_by[1] = "Asc"
                THEN results[i][1].value < results[j][1].value
                ELSE results[i][1].value > results[j][1].value

\* DESC over three rows of one key: emitted last row first
C19_Witness ==
    /\ query # <<>> /\ query[1].order_by = <<"Desc">>
    /\ Len(subject[1]) = 3 /\ NoRowFails(subject[1])
    /\ Len(PassingValues) = 3
    /\ cmp(KeyOf(1), KeyOf(2)) = "Equal" /\ cmp(KeyOf(2), KeyOf(3)) = "Equal"
    /\ results = <<Item("Ok", 3), Item("Ok", 2), Item("Ok", 1)>>

\* the sorted values after TOP or SKIP
Limited ==
    IF query[1].limit = <<>> THEN Unlimited
    ELSE IF query[1].limit[1].kind = "Top"
    THEN SubSeq(Unlimited, 1, Min(query[1].limit[1].n, Len(Unlimited)))
    ELSE SubSeq(Unlimited, query[1].limit[1].n + 1, Len(Unlimited))

\* C20: with ORDER BY, a value is emitted only once the source has no row
\* left, and over rows that all evaluate without error the calls emit the
\* sorted projections of the passing rows, the first k dropped (SKIP k) or cut
\* to the first n (TOP n), and then None
C20_LimitsAfterSort ==
    (query # <<>> /\ query[1].order_by # <<>>) =>
        /\ \A i \in 1..Len(results) :
               Emitted(i) => (query[1].completed /\ query[1].srcs[1] = <<>>)
        /\ NoRowFails(subject[1]) =>
               /\ \A i \in 1..Min(Len(Limited), Len(results)) :
                      results[i] = Item("Ok", Limited[i])
               /\ Len(results) > Len(Limited) => results[Len(Limited) + 1] = <<>>

\* ORDER BY DESC TOP 2 over three rows given in ascending key order
C20_Witness ==
    /\ query # <<>> /\ query[1].order_by = <<"Desc">>
    /\ HasLimit("Top") /\ query[1].limit[1].n = 2
    /\ Len(subject[1]) = 3 /\ NoRowFails(subject[1])
    /\ Len(PassingValues) = 3
    /\ cmp(KeyOf(1), KeyOf(2)) = "Less" /\ cmp(KeyOf(2), KeyOf(3)) = "Less"
    /\ results = <<Item("Ok", 3), Item("Ok", 2), <<>>>>

Sound(item) ==
    /\ item.res = "Ok"
    /\ item.row[1].pred = "true"
    /\ item.row[1].proj = "ok"
    /\ query[1].order_by # <<>> => item.row[1].key[1] # "Err"

\* the projections of the sound rows, in the order of the source
SoundValues ==
    [j \in 1..Len(SelectSeq(subject[1], Sound)) |-> SelectSeq(subject[1], Sound)[j].row[1].value]

\* values in the order the query emits them: that of the source, or by key
InQueryOrder(values) ==
    IF query[1].order_by = <<>> THEN values
    ELSE IF query[1].order_by[1] = "Asc" THEN SortAsc(values)
    ELSE [j \in 1..Len(values) |-> SortAsc(values)[Len(values) + 1 - j]]

\* values after the TOP or SKIP of the query
AfterLimit(values) ==
    IF query[1].limit = <<>> THEN values
    ELSE IF query[1].limit[1].kind = "Top"
    THEN SubSeq(values, 1, Min(query[1].limit[1].n, Len(values)))
    ELSE SubSeq(values, query[1].limit[1].n + 1, Len(values))

IsOk(item) == item # <<>> /\ item[1].res = "Ok"

IsErr(item) == item # <<>> /\ item[1].res = "Err"

\* the values of the calls that returned Some(Ok), in the order of the calls
OkValues == [j \in 1..Len(SelectSeq(results, IsOk)) |-> SelectSeq(results, IsOk)[j][1].value]

\* C22: a call that returns Err for one row does not end the iteration: the
\* values emitted are at every moment the first ones of, and after one call
\* more than the source has rows all of, the projections of the rows that pass
\* and evaluate, in source order (in key order under ORDER BY, and after the
\* query's TOP or SKIP)
C22_ErrorsAreRowLocal ==
    query # <<>> =>
        LET expected == AfterLimit(InQueryOrder(SoundValues)) IN
        /\ Len(OkValues) <= Len(expected)
        /\ OkValues = SubSeq(expected, 1, Len(OkValues))
        /\ Len(results) > Len(subject[1]) => OkValues = expected

\* three rows, the predicate failing on the first: Err, then rows 2 and 3
C22_Witness ==
    /\ query # <<>> /\ query[1].order_by = <<>> /\ query[1].limit = <<>>
    /\ Len(subject[1]) = 3
    /\ subject[1][1].res = "Ok" /\ subject[1][1].row[1].pred = "err"
    /\ Len(results) = 3 /\ IsErr(results[1])
    /\ OkValues = <<2, 3>>

(***************************************************************************)
(* Properties of Sources::fill (specification SpecSources).                *)
(***************************************************************************)
\* C23: a fill over sources that all have a next row takes one row from
\* every source, binds each under its name and returns Some(Ok); a fill over
\* sources one of which is exhausted returns None, and the query that owns
\* the sources is completed once its call has returned None
C23_FillAllOrNone ==
    /\ \A c \in 1..Len(reads) :
           LET call == reads[c] IN
           /\ (\A i \in 1..Len(call.pre) : call.pre[i] # <<>> /\ Head(call.pre[i]).res = "Ok") =>
                  /\ call.res = "Ok"
                  /\ \A i \in 1..Len(call.pre) :
                         /\ call.srcs[i] = Tail(call.pre[i])
                         /\ call.buffer[i] = Head(call.pre[i]).row
           /\ (\E i \in 1..Len(call.pre) : call.pre[i] = <<>>) => call.res = "None"
    /\ \A c \in 1..Len(results) : results[c] = <<>> => query[1].completed

(***************************************************************************)
(* Properties of the aggregate query (specification SpecAgg).              *)
(***************************************************************************)
Grouped == subject[1].query.group_by # <<>>

\* no row of the source passes WHERE (the source may have no row at all)
NoRowPasses == \A i \in 1..Len(subject[1].rows) : subject[1].rows[i].row[1].pred = "false"

\* C24: when no row passes, an ungrouped aggregate query emits one value, in
\* which count() is 0, avg(x) is 0 and unique(x) is Null, and then None; a
\* grouped one emits no value
C24_AggregatesOfNoRow ==
    (query # <<>> /\ NoRowPasses) =>
        IF Grouped THEN \A i \in 1..Len(results) : results[i] = <<>>
        ELSE /\ Len(results) >= 1 =>
                    results[1] = Item("Ok", <<"Record", [a |-> Number(0), n |-> Number(0),
                                                         u |-> <<"Null">>]>>)
             /\ \A i \in 2..Len(results) : results[i] = <<>>

\* an ungrouped query over two rows that do not pass: one value, then None
C24_Witness ==
    /\ query # <<>> /\ NoRowPasses /\ ~Grouped
    /\ Len(subject[1].rows) = 2
    /\ Len(results) = 2 /\ results[1] # <<>> /\ results[2] = <<>>

\* the positions of the rows that pass WHERE and belong to the group `name`
RowsOf(name) ==
    {i \in 1..Len(subject[1].rows) :
        /\ subject[1].rows[i].row[1].pred = "true"
        /\ subject[1].rows[i].row[1].g = <<"String", name>>}

\* the groups of the source
Groups == {name \in GroupNames : RowsOf(name) # {}}

\* the groups for which HAVING is true (every group when there is no HAVING)
Surviving ==
    IF subject[1].query.having = <<>> THEN Groups
    ELSE {name \in Groups : Cardinality(RowsOf(name)) >= subject[1].query.having[1].min}

\* the groups of the values emitted so far, in their order
EmittedGroups ==
    [j \in 1..Len(SelectSeq(results, IsOk)) |-> SelectSeq(results, IsOk)[j][1].value[2].u[2]]

Exhausted == \E i \in 1..Len(results) : results[i] = <<>>

\* C25: a grouped query with HAVING emits a group only if HAVING is true of
\* its completed aggregates, and by the time it returns None it has emitted
\* every such group
C25_HavingFilters ==
    (query # <<>> /\ Grouped /\ subject[1].query.having # <<>>
        /\ subject[1].query.limit = <<>>) =>
        /\ \A j \in 1..Len(EmittedGroups) : EmittedGroups[j] \in Surviving
        /\ Exhausted => {EmittedGroups[j] : j \in 1..Len(EmittedGroups)} = Surviving

\* the value of the ORDER BY expression for a group: its count, or its name
OrderValue(name) ==
    IF subject[1].query.order_by[1].expr = count_app THEN Number(Cardinality(RowsOf(name)))
    ELSE <<"String", name>>

\* C26: a grouped query with ORDER BY e emits its groups by the value of e:
\* of two emitted groups the later one never has the smaller value when the
\* order is ASC, and never the greater when it is DESC
C26_GroupsSortedByOrderValue ==
    (query # <<>> /\ Grouped /\ subject[1].query.order_by # <<>>) =>
        \A i \in 1..Len(EmittedGroups) : \A j \in (i + 1)..Len(EmittedGroups) :
            cmp(OrderValue(EmittedGroups[i]), OrderValue(EmittedGroups[j]))
                # (IF subject[1].query.order_by[1].order = "Asc" THEN "Greater" ELSE "Less")

C28_SameQuerySameSequence ==
    \A i \in 1..Min(Len(results), Len(reads)) : results[i] = reads[i]

(***************************************************************************)
(* Properties of the in-memory database (specification SpecDb).            *)
(***************************************************************************)
\* C29: append returns IllegalSubject exactly when the subject starts with
\* '/', and then the events, the type index and the subject tree are as they
\* were before the call
C29_IllegalSubjectChangesNothing ==
    last.op = "append" =>
        /\ last.res = "IllegalSubject" <=> (last.arg # <<>> /\ last.arg[1] = "/")
        /\ last.res = "IllegalSubject" =>
               /\ subject[1].events = last.pre.events
               /\ subject[1].types = last.pre.types
               /\ subject[1].subjects = last.pre.subjects

\* "/a" appended to a database that holds events: rejected
C29_Witness ==
    /\ last.op = "append" /\ last.res = "IllegalSubject"
    /\ last.arg = <<"/", "a">>
    /\ Len(last.pre.events) > 0

\* the nodes of the subject tree that hold the index of an event
NodesOf(index) ==
    {p \in DOMAIN subject[1].subjects :
        \E k \in 1..Len(subject[1].subjects[p].events) :
            subject[1].subjects[p].events[k] = index}

\* C30: the index of every stored event is held by exactly one node of the
\* subject tree, the one whose full path is the subject the event was
\* appended with
C30_IndexedAtItsSubject ==
    subject # <<>> =>
        \A index \in 0..(Len(subject[1].events) - 1) :
            /\ Cardinality(NodesOf(index)) = 1
            /\ \A p \in NodesOf(index) : subject[1].subjects[p].name = reads[index + 1]

\* the indices of the stored events of type tpe, in increasing order
RECURSIVE IndicesOf(_, _, _)
IndicesOf(events, tpe, from) ==
    IF from >= Len(events) THEN <<>>
    ELSE (IF events[from + 1].event_type = tpe THEN <<from>> ELSE <<>>)
         \o IndicesOf(events, tpe, from + 1)

\* the types of the stored events
StoredTypes == {subject[1].events[i].event_type : i \in 1..Len(subject[1].events)}

OfType(tpe, event) == event.event_type = tpe

\* C31: a successful append stores its events behind the ones already
\* stored, in the given order (consecutive indices); the type index has an
\* entry for exactly the types of the stored events and lists for each type
\* exactly the indices of its events, in increasing order; iter_types yields
\* the events of the type in append order
C31_TypeIndexInAppendOrder ==
    subject # <<>> =>
        /\ (last.op = "append" /\ last.res = "Ok") =>
               subject[1].events = last.pre.events \o last.events
        /\ DOMAIN subject[1].types = StoredTypes
        /\ \A tpe \in StoredTypes \cup {"z"} :
               /\ tpe \in StoredTypes =>
                      subject[1].types[tpe] = IndicesOf(subject[1].events, tpe, 0)
               /\ iter_types(subject[1], tpe)
                      = SelectSeq(subject[1].events, LAMBDA event : OfType(tpe, event))

\* two appends, the second of a "y" then an "x" event behind two stored
\* events: "x" is indexed at 0 and 3, "y" at 1 and 2
C31_Witness ==
    /\ subject # <<>>
    /\ Len(subject[1].events) = 4
    /\ last.op = "append" /\ last.res = "Ok" /\ Len(last.pre.events) = 2
    /\ subject[1].types["x"] = <<0, 3>>
    /\ subject[1].types["y"] = <<1, 2>>
    /\ iter_types(subject[1], "x")
           = <<[event_type |-> "x", id |-> 1], [event_type |-> "x", id |-> 3]>>

(***************************************************************************)
(* Properties of finalize's midpoints (specification SpecWal).             *)
(***************************************************************************)
\* C32: a finalize that returned Ok (here the one of an append that returned
\* Ok) has appended the start offset of its block to the midpoints and set
\* last_mid_offset to it iff the offset just after the block's suffix minus
\* the last_mid_offset it found is greater than limit / 10; otherwise both
\* are as they were
C32_MidpointIffPastThreshold ==
    (last.op = "append" /\ last.res = "Ok") =>
        LET before == last.pre.blocks
            after == writer[1].blocks
            start == before.offset + Len(before.buf)
            end == after.offset + Len(after.buf)
        IN  IF end - before.last_mid_offset > before.limit \div 10
            THEN /\ after.midpoints = Append(before.midpoints, start)
                 /\ after.last_mid_offset = start
            ELSE /\ after.midpoints = before.midpoints
                 /\ after.last_mid_offset = before.last_mid_offset

\* both cases: a block that ends exactly limit / 10 bytes after
\* last_mid_offset captured nothing, and the next block was captured
C32_Witness ==
    /\ last.op = "append" /\ last.res = "Ok"
    /\ Len(closed) = 2
    /\ closed[1].start = 0
    /\ closed[2].start = WalLimit \div 10
    /\ writer[1].blocks.midpoints = <<closed[2].start>>
    /\ writer[1].blocks.last_mid_offset = closed[2].start

(***************************************************************************)
(* Properties of Blocks::at (specification SpecAt).                        *)
(***************************************************************************)
\* the absolute offset the cursor `at` was called on stands at
Position == last.pre.start_offset + last.pre.read

\* C33: on a cursor in any state, at(o) for the absolute offset o of the
\* start of a block at or after the cursor's position returns a cursor whose
\* next_block yields that block, with Block.offset = o; at(o) for an offset
\* outside the buffer returns OffsetOutOfBound
C33_AtAbsoluteOffset ==
    last.op = "at" =>
        /\ \A k \in 1..Len(closed) :
               (last.arg = blocks.offset + closed[k].start /\ last.arg >= Position) =>
                   /\ last.res = "Ok"
                   /\ last.ob.res = "Some"
                   /\ last.ob.block[1].offset = last.arg
                   /\ last.ob.block[1].data = closed[k].payload
        /\ (last.arg < blocks.offset \/ last.arg > blocks.offset + Len(image)) =>
               last.res = "OffsetOutOfBound"

\* the same on a cursor that has consumed nothing
C33_FreshCursor == (last.op = "at" /\ last.pre.read = 0) => C33_AtAbsoluteOffset

(***************************************************************************)
(* Properties of short payloads (specification SpecShort).                 *)
(***************************************************************************)
\* C34: try_deserialize_from on a block whose payload is shorter than 16
\* bytes (u64 lsn, u8 op, u8 content_type, u16 data_len, u32 CRC) fails with
\* TooSmall
C34_ShortPayloadTooSmall ==
    (Len(reads) >= 1 /\ Len(closed) = 1 /\ Len(closed[1].payload) < 8 + 1 + 1 + 2 + 4) =>
        reads[1].res = "TooSmall"

\* the same for the payloads shorter than RECORD_MIN_SIZE as the code has it
C34_BelowRecordMinSize ==
    (Len(reads) >= 1 /\ Len(closed) = 1 /\ Len(closed[1].payload) < RECORD_MIN_SIZE) =>
        reads[1].res = "TooSmall"

(***************************************************************************)
(* Properties of the midpoint section (specification SpecSection).         *)
(***************************************************************************)
\* the bytes serialize_into added behind the ones the buffer held
Section == Drop(wire, Len(subject[1].buf))

\* C35: serialize_into with k <= 10 midpoints appends exactly 128 bytes to
\* the buffer, the k entries (u64 LE lsn, u32 LE offset) in order and k as a
\* u16 LE at byte offset 126 of the section, and leaves the bytes already
\* in the buffer untouched; with k > 10 it fails TooManyMidpoints and
\* appends nothing
C35_SectionOf128Bytes ==
    last.op = "serialize_into" =>
        LET inner == subject[1].inner
            k == Len(inner)
        IN  IF k <= 10
            THEN /\ last.res = "Ok"
                 /\ Len(wire) = Len(subject[1].buf) + 128
                 /\ Take(wire, Len(subject[1].buf)) = subject[1].buf
                 /\ \A i \in 1..k :
                        /\ FromLE(SubSeq(Section, 12 * (i - 1) + 1, 12 * (i - 1) + 8))
                               = inner[i].lsn
                        /\ FromLE(SubSeq(Section, 12 * (i - 1) + 9, 12 * i))
                               = inner[i].offset
                 /\ FromLE(SubSeq(Section, 127, 128)) = k
            ELSE /\ last.res = "TooManyMidpoints"
                 /\ wire = subject[1].buf

\* the part of C35 that the code has: more than 10 midpoints are refused
\* and nothing is appended
C35_TooManyRefused ==
    (last.op = "serialize_into" /\ Len(subject[1].inner) > 10) =>
        (last.res = "TooManyMidpoints" /\ wire = subject[1].buf)

(***************************************************************************)
(* Properties of record equality (specification SpecEq).                   *)
(***************************************************************************)
RECURSIVE ValueEqual(_, _)
\* textbook equality of two values of the same kind: records have the same
\* keys and equal values under every key
ValueEqual(a, b) ==
    /\ a[1] = b[1]
    /\ CASE a[1] = "Record" ->
                /\ {f[1] : f \in {a[2][i] : i \in 1..Len(a[2])}}
                       = {f[1] : f \in {b[2][i] : i \in 1..Len(b[2])}}
                /\ \A i \in 1..Len(a[2]) : \A j \in 1..Len(b[2]) :
                       a[2][i][1] = b[2][j][1] => ValueEqual(a[2][i][2], b[2][j][2])
         [] a[1] = "Number" -> a[2].abs = b[2].abs /\ (a[2].abs = 0 \/ a[2].neg = b[2].neg)
         [] a[1] = "Null" -> FALSE
         [] OTHER -> a[2] = b[2]

RECURSIVE Comparable(_, _)
\* = is defined on the fields the two records share: they are of the same
\* kind, and not Null
Comparable(a, b) ==
    \A i \in 1..Len(a[2]) : \A j \in 1..Len(b[2]) :
        a[2][i][1] = b[2][j][1] =>
            LET v == a[2][i][2]
                w == b[2][j][2]
            IN  /\ v[1] = w[1]
                /\ v[1] # "Null"
                /\ v[1] = "Record" => Comparable(v, w)

\* C36: = on two records returns true iff they have the same keys and, for
\* every key, values that are equal under =; false otherwise; != returns
\* the negation
C36_RecordEquality ==
    (last.op = "eval_binary" /\ Comparable(subject[1].a, subject[1].b)) =>
        /\ results[1].res = "Ok"
        /\ results[1].value
               = Bool(IF last.arg = "Eq" THEN ValueEqual(subject[1].a, subject[1].b)
                      ELSE ~ValueEqual(subject[1].a, subject[1].b))

\* the part of C36 that the code has: records of different lengths or with
\* different keys are not equal
C36_KeyMismatch ==
    (last.op = "eval_binary"
        /\ {f[1] : f \in {subject[1].a[2][i] : i \in 1..Len(subject[1].a[2])}}
               # {f[1] : f \in {subject[1].b[2][i] : i \in 1..Len(subject[1].b[2])}}) =>
        results[1] = EvalOk(Bool(last.arg = "Neq"))

(***************************************************************************)
(* Properties of EvalAgg::fold (specification SpecFold).                   *)
(***************************************************************************)
\* the accumulators the row of the last fold went to, before and after it
FoldedBefore ==
    IF last.pre.kind = "Regular" THEN last.pre.aggs
    ELSE IF last.arg.g \in DOMAIN last.pre.aggs THEN last.pre.aggs[last.arg.g]
    ELSE last.pre.base

FoldedAfter ==
    IF last.pre.kind = "Regular" THEN query[1].kind.aggs
    ELSE query[1].kind.aggs[last.arg.g]

\* C37: a fold of a row folds the accumulator of every distinct aggregate
\* application of the query exactly once, with the evaluated values of that
\* application's own arguments (none for count()), whatever other aggregates
\* the query has and in whatever order they are visited
C37_FoldedWithOwnArguments ==
    last.op = "fold" =>
        /\ last.res = "Ok"
        /\ Len(FoldedAfter) = Len(FoldedBefore)
        /\ \A i \in 1..Len(FoldedBefore) :
               /\ FoldedAfter[i].app = FoldedBefore[i].app
               /\ FoldedAfter[i].agg
                      = Agg_fold(FoldedBefore[i].agg,
                                 [k \in 1..Len(FoldedBefore[i].app[3]) |->
                                     last.arg[FoldedBefore[i].app[3][k][2]]])

\* the same for the queries with one aggregate application
C37_OneApplication ==
    (last.op = "fold" /\ Len(FoldedBefore) = 1) => C37_FoldedWithOwnArguments

(***************************************************************************)
(* Properties of the number of midpoints (specification SpecMany).         *)
(***************************************************************************)
\* C38: on a BlocksMut created with last_mid_offset = 0, whatever blocks
\* were finalized within the limit, at most MIDPOINT_MAX_COUNT midpoints
\* have been captured
C38_AtMostTenMidpoints ==
    clean => Len(blocks.midpoints) <= MIDPOINT_MAX_COUNT

(***************************************************************************)
(* Properties of a failed finalize (specification Spec).                   *)
(***************************************************************************)
\* C39: after a finalize that returned WroteTooLittle the BlocksMut is as it
\* was before the block was opened: the buffer ends where it ended then (no
\* prefix, no partial payload) and available_space is what it was
C39_FailedFinalizeRestores ==
    (last.op = "finalize" /\ last.res = "WroteTooLittle") =>
        /\ Len(blocks.buf) = track.start
        /\ available_space(blocks) = track.space

(***************************************************************************)
(* Properties of the positions of joined sources (specification            *)
(* SpecSources).                                                           *)
(***************************************************************************)
\* the number of rows taken so far from source i
Advanced(i) == Len(reads[1].pre[i]) - Len(subject[1][i])

\* C40: after fill calls that each returned Some (Ok or Err), every source
\* has been advanced the same number of times
C40_SourcesAdvanceTogether ==
    (Len(reads) >= 1 /\ \A c \in 1..Len(reads) : reads[c].res \in {"Ok", "Err"}) =>
        \A i, j \in 1..Len(subject[1]) : Advanced(i) = Advanced(j)

\* the same after fill calls that each returned Some(Ok)
C40_AfterOk ==
    (Len(reads) >= 1 /\ \A c \in 1..Len(reads) : reads[c].res = "Ok") =>
        \A i, j \in 1..Len(subject[1]) : Advanced(i) = Advanced(j)

====
